---------------------------- MODULE Spec2Model ----------------------------
(*************************************************************************)
(* ZotLink: the metadata normaliser of debug_tools/trace_url.py          *)
(* (patched_convert_to_zotero_format), the bioRxiv direct extractor      *)
(* (zotlink/extractors/biorxiv_direct_extractor.py), the dispatch in     *)
(* front of it, download_and_save_to_zotero of legacy/downloader.py and  *)
(* the download callbacks of tools/anti_crawler_pdf_downloader.py.       *)
(* Each part has its own specification: Spec, SpecExtract,               *)
(* SpecDispatch, SpecSave and SpecConcurrent.  The legacy MCP server's   *)
(* tools (legacy/mcp_server.py), enhanced_search_papers, the ZIP         *)
(* extractor (tools/zip_extractor.py) and the maintenance scripts        *)
(* (migrate_configs.py, cleanup_nature.py) follow, as SpecCookies,       *)
(* SpecBatch, SpecSearch, SpecZip, SpecMaintenance and SpecTree.         *)
(*                                                                       *)
(* Python values.  A str is PyStr(s) with s a sequence of tokens; a      *)
(* token is a one-character string wherever the program looks at single  *)
(* characters (dates, DOI digits) and otherwise a fixed run of           *)
(* characters that no pattern of the program splits ("arxiv.org").  A    *)
(* list is PyList(l), None is PyNone.  A dict is a function whose        *)
(* domain is the set of keys present.                                    *)
(*************************************************************************)
EXTENDS Integers, Sequences, FiniteSets, TLC

VARIABLES
    paper_info,     \* the dict handed to _convert_to_zotero_format
    zotero_item,    \* the dict it returned
    pc,             \* position of the normaliser run: "start" | "done"
    url,            \* the URL handed to BioRxivDirectExtractor.extract_metadata
    download,       \* what the browser download delivered to handle_download
    result,         \* the outcome of extract_metadata: a return value or a raise
    xpc,            \* position of the extraction request
    paper_title,    \* the title the caller hands to download_and_save_to_zotero
    download_result,\* what download_paper returned to it
    submitted,      \* the paper_info it handed to save_to_zotero
    pdf_path,       \* the pdf_path it handed to save_to_zotero
    save_result,    \* what download_and_save_to_zotero returned
    fetched,        \* the file downloads download_paper attempted, in order
    zotero_result,  \* what save_to_zotero returned to it
    spc,            \* position of the download-and-save call
    selected,       \* the extractor the dispatcher chose for url
    invoked,        \* the extractors run for url, in order
    metadata,       \* the metadata trace_url_processing goes on with
    dpc,            \* position of the dispatch
    now,            \* int(time.time()), the clock in whole seconds
    tmpfiles,       \* the files of the temporary directory: path -> bytes
    req             \* the download requests in flight, one record each

normVars == <<paper_info, zotero_item, pc>>
extrVars == <<url, download, result, xpc>>
saveVars ==
    <<paper_title, download_result, submitted, pdf_path, save_result, fetched,
      zotero_result, spc>>
dispVars == <<selected, invoked, metadata, dpc>>
concVars == <<now, tmpfiles, req>>

\* the legacy MCP server's tool handler (legacy/mcp_server.py)
VARIABLES
    downloader,     \* the module-level `downloader`: None or the downloader object
    history         \* the tool calls handled so far, oldest first

cookVars == <<downloader, history>>

\* the download_papers_batch tool (legacy/mcp_server.py)
VARIABLES
    papers,         \* the `papers` argument
    batch_report,   \* the report the handler built
    bpc             \* "start" | "done"

batchVars == <<papers, batch_report, bpc>>

\* downloader.enhanced_search_papers (legacy/downloader.py)
VARIABLES
    site_pages,     \* what the site serves for result pages 1, 2, 3
    max_results,    \* the max_results argument
    search_results, \* the dict returned
    pages_fetched,  \* number of session.get calls made
    qpc             \* "start" | "done"

searchVars == <<site_pages, max_results, search_results, pages_fetched, qpc>>

\* ZipPDFExtractor.extract_pdf_from_zip (tools/zip_extractor.py)
VARIABLES
    file_list,      \* zip_file.namelist(), in archive order
    zip_result,     \* what extract_pdf_from_zip returned
    zpc             \* "start" | "done"

zipVars == <<file_list, zip_result, zpc>>

\* the maintenance scripts migrate_configs.py and cleanup_nature.py
VARIABLES
    fs,             \* the files and directories the scripts look at
    fs_before,      \* the same, as it was when the function was called
    ran             \* the function that ran and its dry_run argument

maintVars == <<fs, fs_before, ran>>

\* the get_zotero_collections tool (legacy/mcp_server.py)
VARIABLES
    collections,    \* zotero_connector.get_collections()
    tree_text,      \* the collections build_tree_display listed, in order
    tpc             \* "start" | "done"

treeVars == <<collections, tree_text, tpc>>

coreVars == <<normVars, extrVars, saveVars, dispVars, concVars>>
toolVars == <<cookVars, batchVars, searchVars, zipVars, maintVars, treeVars>>

\* what an action of one tool leaves alone
besideCookies == <<coreVars, batchVars, searchVars, zipVars, maintVars, treeVars>>
besideBatch == <<coreVars, cookVars, searchVars, zipVars, maintVars, treeVars>>
besideSearch == <<coreVars, cookVars, batchVars, zipVars, maintVars, treeVars>>
besideZip == <<coreVars, cookVars, batchVars, searchVars, maintVars, treeVars>>
besideMaintenance == <<coreVars, cookVars, batchVars, searchVars, zipVars, treeVars>>
besideTree == <<coreVars, cookVars, batchVars, searchVars, zipVars, maintVars>>

vars == <<coreVars, toolVars>>

-----------------------------------------------------------------------------
(* Python values *)

PyStr(s) == [t |-> "str", v |-> s]
PyList(l) == [t |-> "list", v |-> l]
PyBytes(b) == [t |-> "bytes", v |-> b]
PyNone == [t |-> "none", v |-> << >>]

\* bool(x) for str, list, bytes and None
Truthy(x) == x.v # << >>

\* d.get(k, dflt)
Get(d, k, dflt) == IF k \in DOMAIN d THEN d[k] ELSE dflt

\* a or b
PyOr(a, b) == IF Truthy(a) THEN a ELSE b

EmptyDict == [k \in {} |-> PyNone]

\* sub in s
Contains(s, sub) ==
    \E i \in 1..(Len(s) - Len(sub) + 1) : SubSeq(s, i, i + Len(sub) - 1) = sub

\* l[:n]
Take(l, n) == SubSeq(l, 1, IF Len(l) < n THEN Len(l) ELSE n)


-----------------------------------------------------------------------------
(* Character classes of Python's re for str patterns *)

Digits == {"0", "1", "2", "3", "4", "5", "6", "7", "8", "9"}

UpperLetters ==
    {"A", "B", "C", "D", "E", "F", "G", "H", "I", "J", "K", "L", "M",
     "N", "O", "P", "Q", "R", "S", "T", "U", "V", "W", "X", "Y", "Z"}

LowerLetters ==
    {"a", "b", "c", "d", "e", "f", "g", "h", "i", "j", "k", "l", "m",
     "n", "o", "p", "q", "r", "s", "t", "u", "v", "w", "x", "y", "z"}

\* the four characters of the literal on line 76, one token per character
UnknownDate == <<"U+672A", "U+77E5", "U+65E5", "U+671F">>

CJK == {"U+672A", "U+77E5", "U+65E5", "U+671F"}

\* \d
IsDigit(c) == c \in Digits

\* \s
IsSpace(c) == c \in {" ", "\t", "\n"}

\* \w
IsWord(c) == c \in UpperLetters \cup LowerLetters \cup Digits \cup {"_"} \cup CJK

AllDigits(s, from, to) == \A k \in from..to : IsDigit(s[k])
AllSpaces(s, from, to) == \A k \in from..to : IsSpace(s[k])
AllWord(s, from, to) == \A k \in from..to : IsWord(s[k])

-----------------------------------------------------------------------------
(* re.search(r'(\d{1,2})\s+(\w+)\s+(\d{4})', date), line 78.             *)
(* A match is <<i, dl, a, w, b>>: start, day digits, first whitespace    *)
(* run, word length, second whitespace run; the year is the 4 digits     *)
(* after them.                                                           *)

\* the lengths l >= 1 for which s[from .. from+l-1] lies in s and is all digits
\* (all blanks, all word characters)
DigitRuns(s, from, most) ==
    { l \in 1..most : from + l - 1 <= Len(s) /\ AllDigits(s, from, from + l - 1) }
SpaceRuns(s, from) ==
    { l \in 1..(Len(s) - from + 1) : AllSpaces(s, from, from + l - 1) }
WordRuns(s, from) ==
    { l \in 1..(Len(s) - from + 1) : AllWord(s, from, from + l - 1) }

DayMonthYearMatches(s) ==
    UNION { UNION { UNION { UNION {
        { <<i, dl, a, w, b>> :
            b \in { x \in SpaceRuns(s, i + dl + a + w) :
                      4 \in DigitRuns(s, i + dl + a + w + x, 4) } } :
        w \in WordRuns(s, i + dl + a) } :
        a \in SpaceRuns(s, i + dl) } :
        dl \in DigitRuns(s, i, 2) } :
        i \in 1..Len(s) }

\* the order in which the backtracking matcher finds matches: leftmost
\* start first, then each greedy quantifier longest first
FoundBefore(m, o) ==
    \/ m[1] < o[1]
    \/ m[1] = o[1] /\ m[2] > o[2]
    \/ m[1] = o[1] /\ m[2] = o[2] /\ m[3] > o[3]
    \/ m[1] = o[1] /\ m[2] = o[2] /\ m[3] = o[3] /\ m[4] > o[4]
    \/ m[1] = o[1] /\ m[2] = o[2] /\ m[3] = o[3] /\ m[4] = o[4] /\ m[5] >= o[5]

\* date_match (only used when DayMonthYearMatches(s) is non-empty)
date_match(s) ==
    LET M == DayMonthYearMatches(s) IN
    CHOOSE m \in M : \A o \in M : FoundBefore(m, o)

\* date_match.groups()
match_day(s, m) == SubSeq(s, m[1], m[1] + m[2] - 1)
match_month_name(s, m) ==
    SubSeq(s, m[1] + m[2] + m[3], m[1] + m[2] + m[3] + m[4] - 1)
match_year(s, m) ==
    SubSeq(s, m[1] + m[2] + m[3] + m[4] + m[5],
              m[1] + m[2] + m[3] + m[4] + m[5] + 3)

\* the months dict, lines 81-85
months ==
    (<<"J", "a", "n">> :> <<"0", "1">>) @@ (<<"F", "e", "b">> :> <<"0", "2">>) @@
    (<<"M", "a", "r">> :> <<"0", "3">>) @@ (<<"A", "p", "r">> :> <<"0", "4">>) @@
    (<<"M", "a", "y">> :> <<"0", "5">>) @@ (<<"J", "u", "n">> :> <<"0", "6">>) @@
    (<<"J", "u", "l">> :> <<"0", "7">>) @@ (<<"A", "u", "g">> :> <<"0", "8">>) @@
    (<<"S", "e", "p">> :> <<"0", "9">>) @@ (<<"O", "c", "t">> :> <<"1", "0">>) @@
    (<<"N", "o", "v">> :> <<"1", "1">>) @@ (<<"D", "e", "c">> :> <<"1", "2">>)

\* months.get(month_name[:3], '01'), line 86
month_of(month_name) == Get(months, Take(month_name, 3), <<"0", "1">>)

\* day.zfill(2)
zfill2(day) == IF Len(day) < 2 THEN <<"0">> \o day ELSE day

\* re.search(r'(\d{4})[-/](\d{1,2})[-/](\d{1,2})', date), line 88
IsoLikeFound(s) ==
    \E i \in 1..Len(s) : \E ml \in 1..2 : \E dl \in 1..2 :
        /\ i + 3 + 1 + ml + 1 + dl <= Len(s)
        /\ AllDigits(s, i, i + 3)
        /\ s[i + 4] \in {"-", "/"}
        /\ AllDigits(s, i + 5, i + 4 + ml)
        /\ s[i + 5 + ml] \in {"-", "/"}
        /\ AllDigits(s, i + 6 + ml, i + 5 + ml + dl)

\* re.search(r'^\d{4}$', date), line 90; $ also matches before a final newline
BareYearFound(s) ==
    /\ Len(s) >= 4
    /\ AllDigits(s, 1, 4)
    /\ Len(s) = 4 \/ (Len(s) = 5 /\ s[5] = "\n")

\* the bare-year test tried before the ISO test and without its anchors
parse_date_year_first(date) ==
    IF date.t = "str" /\ Truthy(date) /\ date.v # UnknownDate
    THEN IF DayMonthYearMatches(date.v) # {}
         THEN LET m == date_match(date.v) IN
              PyStr(match_year(date.v, m) \o <<"-">>
                    \o month_of(match_month_name(date.v, m)) \o <<"-">>
                    \o zfill2(match_day(date.v, m)))
         ELSE IF 4 \in DigitRuns(date.v, 1, 4)
         THEN PyStr(SubSeq(date.v, 1, 4) \o <<"-", "0", "1", "-", "0", "1">>)
         ELSE date
    ELSE date

\* lines 75-93: the date of the item, from paper_info.get('date', '')
parse_date(date) ==
    IF date.t = "str" /\ Truthy(date) /\ date.v # UnknownDate
    THEN IF DayMonthYearMatches(date.v) # {}
         THEN LET m == date_match(date.v) IN
              PyStr(match_year(date.v, m) \o <<"-">>
                    \o month_of(match_month_name(date.v, m)) \o <<"-">>
                    \o zfill2(match_day(date.v, m)))
         ELSE IF IsoLikeFound(date.v)
         THEN date
         ELSE IF BareYearFound(date.v)
         THEN PyStr(date.v \o <<"-", "0", "1", "-", "0", "1">>)
         ELSE date
    ELSE date

-----------------------------------------------------------------------------
(* ZoteroConnector._convert_to_zotero_format, the method that            *)
(* patched_convert_to_zotero_format calls for a free-text authors string *)
(* (line 68).  zotlink/zotero_integration.py is not among the sources:   *)
(* what follows is the normaliser and creator list builder of the        *)
(* specification, sections 4.2, 4.3 and 7.                               *)

CreatorCap == 15

Author == PyStr(<<"author">>)

IsSeparator(tok, seps) == tok \in seps

\* the pieces of s between separator tokens, in order
RECURSIVE SplitTokens(_, _)
SplitTokens(s, seps) ==
    IF \A i \in 1..Len(s) : ~IsSeparator(s[i], seps)
    THEN <<s>>
    ELSE LET i == CHOOSE j \in 1..Len(s) :
                      /\ IsSeparator(s[j], seps)
                      /\ \A k \in 1..(j - 1) : ~IsSeparator(s[k], seps)
         IN <<SubSeq(s, 1, i - 1)>> \o SplitTokens(SubSeq(s, i + 1, Len(s)), seps)

IsNameWord(tok) == ~IsSpace(tok)

\* the words of one name, whitespace dropped
NameWords(piece) == SelectSeq(piece, IsNameWord)

RECURSIVE JoinWords(_)
JoinWords(ws) ==
    IF Len(ws) = 0 THEN << >>
    ELSE IF Len(ws) = 1 THEN <<ws[1]>>
    ELSE <<ws[1], " ">> \o JoinWords(Tail(ws))

\* mutant of CreatorOfWords: the first word is the given name, the rest
\* the family name
CreatorOfWords_first_word_given(ws) ==
    [creatorType |-> Author,
     firstName |-> PyStr(IF Len(ws) > 1 THEN <<ws[1]>> ELSE << >>),
     lastName |-> PyStr(IF Len(ws) > 1 THEN JoinWords(Tail(ws)) ELSE ws)]

\* one CreatorRef from the words of one name
CreatorOfWords(ws) ==
    [creatorType |-> Author,
     firstName |-> PyStr(JoinWords(SubSeq(ws, 1, Len(ws) - 1))),
     lastName |-> PyStr(<<ws[Len(ws)]>>)]

HasWords(piece) == NameWords(piece) # << >>

\* mutant of parse_authors: the words "and" and "&" do not separate
parse_authors_comma_only(s) ==
    LET seps == IF Contains(s, <<";">>) THEN {";"} ELSE {","}
        names == SelectSeq(SplitTokens(s, seps), HasWords)
        all == [i \in 1..Len(names) |-> CreatorOfWords(NameWords(names[i]))]
    IN Take(all, CreatorCap)

\* mutant of parse_authors: no cap
parse_authors_uncapped(s) ==
    LET seps == IF Contains(s, <<";">>) THEN {";"} ELSE {",", "and", "&"}
        names == SelectSeq(SplitTokens(s, seps), HasWords)
    IN [i \in 1..Len(names) |-> CreatorOfWords(NameWords(names[i]))]

\* Branch B of section 4.3
parse_authors(s) ==
    LET seps == IF Contains(s, <<";">>) THEN {";"} ELSE {",", "and", "&"}
        names == SelectSeq(SplitTokens(s, seps), HasWords)
        all == [i \in 1..Len(names) |-> CreatorOfWords(NameWords(names[i]))]
    IN Take(all, CreatorCap)

PreprintRepositories ==
    {<<"bioRxiv">>, <<"medRxiv">>, <<"ChemRxiv">>, <<"PsyArXiv">>, <<"SocArXiv">>}

PreprintDomains ==
    {<<"biorxiv.org">>, <<"medrxiv.org">>, <<"chemrxiv.org">>,
     <<"psyarxiv.com">>, <<"socarxiv.org">>}

ArxivMarker == <<"arxiv.org">>

\* the field-omission rule of section 4.2
spec_drop_empty(d) == [k \in {j \in DOMAIN d : Truthy(d[j])} |-> d[k]]

\* the month table of section 4.2, rule 1: case-insensitive
LowerOf ==
    [c \in UpperLetters |->
        CASE c = "A" -> "a" [] c = "B" -> "b" [] c = "C" -> "c" [] c = "D" -> "d"
          [] c = "E" -> "e" [] c = "F" -> "f" [] c = "G" -> "g" [] c = "H" -> "h"
          [] c = "I" -> "i" [] c = "J" -> "j" [] c = "K" -> "k" [] c = "L" -> "l"
          [] c = "M" -> "m" [] c = "N" -> "n" [] c = "O" -> "o" [] c = "P" -> "p"
          [] c = "Q" -> "q" [] c = "R" -> "r" [] c = "S" -> "s" [] c = "T" -> "t"
          [] c = "U" -> "u" [] c = "V" -> "v" [] c = "W" -> "w" [] c = "X" -> "x"
          [] c = "Y" -> "y" [] c = "Z" -> "z"]

LowerChar(c) == IF c \in UpperLetters THEN LowerOf[c] ELSE c

LowerStr(s) == [i \in 1..Len(s) |-> LowerChar(s[i])]

\* the abbreviations whose lower-case form is that of the first three
\* letters of the word: one for a month name, none otherwise
MonthAbbrevs(word) ==
    {a \in DOMAIN months : LowerStr(a) = LowerStr(Take(word, 3))}

\* the date rules of section 4.2
spec_parse_date(date) ==
    IF date.t = "str" /\ Truthy(date)
    THEN IF /\ DayMonthYearMatches(date.v) # {}
            /\ MonthAbbrevs(match_month_name(date.v, date_match(date.v))) # {}
         THEN LET m == date_match(date.v)
                  a == CHOOSE x \in MonthAbbrevs(match_month_name(date.v, m)) : TRUE
              IN PyStr(match_year(date.v, m) \o <<"-">> \o months[a] \o <<"-">>
                       \o zfill2(match_day(date.v, m)))
         ELSE IF IsoLikeFound(date.v)
         THEN date
         ELSE IF Len(date.v) = 4 /\ AllDigits(date.v, 1, 4)
         THEN PyStr(date.v \o <<"-", "0", "1", "-", "0", "1">>)
         ELSE date
    ELSE date

\* the item-type rules of section 4.2
spec_item_type(pi) ==
    LET u == Get(pi, "url", PyStr(<< >>)).v IN
    IF Contains(u, ArxivMarker) THEN PyStr(<<"preprint">>)
    ELSE IF \/ Get(pi, "repository", PyNone).v \in PreprintRepositories
            \/ \E d \in PreprintDomains : Contains(u, d)
    THEN PyStr(<<"preprint">>)
    ELSE PyStr(<<"journalArticle">>)

\* normalize(raw) for a raw result with a free-text authors string.  The
\* method knows no creators field (the patch exists to add it, lines 52
\* and 59-68 of trace_url.py): its creators come from the authors string.
original_convert(pi, today) ==
    IF "error" \in DOMAIN pi
    THEN pi
    ELSE LET a == Get(pi, "authors", PyNone)
             creators == IF a.t = "str" /\ Truthy(a) THEN parse_authors(a.v)
                         ELSE << >>
             item == ("itemType" :> spec_item_type(pi))
                     @@ ("title" :> Get(pi, "title", PyStr(<< >>)))
                     @@ ("creators" :> PyList(creators))
                     @@ ("abstractNote" :> PyOr(Get(pi, "abstractNote", PyNone),
                                                Get(pi, "abstract", PyStr(<< >>))))
                     @@ ("url" :> Get(pi, "url", PyStr(<< >>)))
                     @@ ("date" :> spec_parse_date(Get(pi, "date", PyStr(<< >>))))
                     @@ ("DOI" :> Get(pi, "DOI", PyNone))
                     @@ ("repository" :> Get(pi, "repository", PyNone))
                     @@ ("libraryCatalog" :> Get(pi, "libraryCatalog", PyNone))
                     @@ ("accessDate" :> today)
         IN spec_drop_empty(item)

-----------------------------------------------------------------------------
(* patched_convert_to_zotero_format, debug_tools/trace_url.py lines 51-123 *)

\* the slice forgotten: every creator is kept
creators_slice_uncapped(creators) == creators

\* authors = paper_info['creators'][:15], line 62
creators_slice(creators) == Take(creators, 15)

\* the arXiv test of lines 97-98 left out
item_type_hint_only(pi) == Get(pi, "itemType", PyStr(<<"journalArticle">>))

\* lines 95-98
item_type_of(pi) ==
    IF Contains(Get(pi, "url", PyStr(<< >>)).v, <<"arxiv.org">>)
    THEN PyStr(<<"preprint">>)
    ELSE Get(pi, "itemType", PyStr(<<"journalArticle">>))

\* lines 101-108
base_item(pi, authors) ==
    ("itemType" :> item_type_of(pi))
    @@ ("title" :> Get(pi, "title", PyStr(<< >>)))
    @@ ("creators" :> PyList(authors))
    @@ ("abstractNote" :> PyOr(Get(pi, "abstractNote", PyNone),
                               Get(pi, "abstract", PyStr(<< >>))))
    @@ ("url" :> Get(pi, "url", PyStr(<< >>)))
    @@ ("date" :> parse_date(Get(pi, "date", PyStr(<< >>))))

\* lines 111-116: if paper_info.get(k): zotero_item[k] = paper_info[k]
copy_if_set(pi, k) == IF Truthy(Get(pi, k, PyNone)) THEN k :> pi[k] ELSE EmptyDict

\* the comprehension of line 121 without its "if v"
drop_nothing(d) == d

\* line 121: {k: v for k, v in zotero_item.items() if v}
drop_empty(d) == [k \in {j \in DOMAIN d : Truthy(d[j])} |-> d[k]]

\* lines 73-123, reached with authors = the creators slice or []
build_item(pi, authors, today) ==
    drop_empty(("accessDate" :> today)
               @@ copy_if_set(pi, "DOI")
               @@ copy_if_set(pi, "repository")
               @@ copy_if_set(pi, "libraryCatalog")
               @@ base_item(pi, authors))

\* the two branches of lines 60-68 in the other order: authors first
patched_authors_first(pi, today) ==
    LET c == Get(pi, "creators", PyNone) IN
    IF Truthy(Get(pi, "authors", PyNone))
    THEN original_convert(pi, today)
    ELSE IF Truthy(c) /\ c.t = "list"
    THEN build_item(pi, creators_slice(c.v), today)
    ELSE build_item(pi, << >>, today)

\* mutant of patched_convert_to_zotero_format: without creators and
\* authors nothing is built
patched_nothing_without_authors(pi, today) ==
    LET c == Get(pi, "creators", PyNone) IN
    IF Truthy(c) /\ c.t = "list"
    THEN build_item(pi, creators_slice(c.v), today)
    ELSE IF Truthy(Get(pi, "authors", PyNone))
    THEN original_convert(pi, today)
    ELSE EmptyDict

\* lines 51-123
patched_convert_to_zotero_format(pi, today) ==
    LET c == Get(pi, "creators", PyNone) IN
    IF Truthy(c) /\ c.t = "list"
    THEN build_item(pi, creators_slice(c.v), today)
    ELSE IF Truthy(Get(pi, "authors", PyNone))
    THEN original_convert(pi, today)
    ELSE build_item(pi, << >>, today)

-----------------------------------------------------------------------------
(* BioRxivDirectExtractor, zotlink/extractors/biorxiv_direct_extractor.py *)

\* str.lower() of the tokens that hold upper-case letters
TokenLower ==
    ("BioRxiv.org" :> "biorxiv.org") @@ ("BIORXIV.ORG" :> "biorxiv.org")

\* url.lower()
url_lower(s) ==
    [i \in 1..Len(s) |->
        IF s[i] \in DOMAIN TokenLower THEN TokenLower[s[i]] ELSE LowerChar(s[i])]

\* can_handle, lines 32-34
can_handle(u) == Contains(url_lower(u), <<"biorxiv.org">>)

\* re.search(r'10\.1101/(\d{4})\.(\d{2})\.(\d{2})\.(\d+)', url), line 61:
\* the places where the pattern matches
DoiStarts(s) ==
    { i \in 1..Len(s) :
        /\ i + 12 <= Len(s)
        /\ s[i] = "10.1101/"
        /\ AllDigits(s, i + 1, i + 4)
        /\ s[i + 5] = "."
        /\ AllDigits(s, i + 6, i + 7)
        /\ s[i + 8] = "."
        /\ AllDigits(s, i + 9, i + 10)
        /\ s[i + 11] = "."
        /\ IsDigit(s[i + 12]) }

\* the leftmost match
doi_start(s) == CHOOSE i \in DoiStarts(s) : \A j \in DoiStarts(s) : i <= j

\* (\d+) is greedy: the whole run of digits from position i
digit_run_end(s, i) ==
    CHOOSE e \in i..Len(s) :
        /\ AllDigits(s, i, e)
        /\ e = Len(s) \/ ~IsDigit(s[e + 1])

\* _extract_from_url, lines 58-85
extract_from_url(u) ==
    IF DoiStarts(u) = {}
    THEN "error" :> PyStr(<<"cannot extract DOI from URL">>)
    ELSE LET i == doi_start(u)
             year == SubSeq(u, i + 1, i + 4)
             month == SubSeq(u, i + 6, i + 7)
             day == SubSeq(u, i + 9, i + 10)
             version == SubSeq(u, i + 12, digit_run_end(u, i + 12))
             paper_id == year \o <<".">> \o month \o <<".">> \o day
                         \o <<".">> \o version
         IN ("itemType" :> PyStr(<<"preprint">>))
            @@ ("title" :> PyStr(<<"bioRxiv preprint ">> \o paper_id))
            @@ ("creators" :> PyList(<<[creatorType |-> PyStr(<<"author">>),
                                        firstName |-> PyStr(<<"Unknown">>),
                                        lastName |-> PyStr(<<"Author">>)]>>))
            @@ ("abstractNote" :> PyStr(<<"bioRxiv preprint - PDF auto-downloaded">>))
            @@ ("url" :> PyStr(u))
            @@ ("DOI" :> PyStr(<<"10.1101/">> \o paper_id))
            @@ ("repository" :> PyStr(<<"bioRxiv">>))
            @@ ("archiveID" :> PyStr(paper_id))
            @@ ("date" :> PyStr(year \o <<"-">> \o month \o <<"-">> \o day))
            @@ ("libraryCatalog" :> PyStr(<<"bioRxiv">>))
            @@ ("pdf_url" :> PyStr(<<"https://www.", "biorxiv.org", "/content/",
                                     "10.1101/">> \o paper_id \o <<".full.pdf">>))
            @@ ("extractor" :> PyStr(<<"BioRxiv-Direct">>))

Returned(value) == [kind |-> "return", value |-> value]
Raised(exc) == [kind |-> "raise", exc |-> exc]
NoResult == [kind |-> "none"]

\* pdf_content.startswith(b'%PDF'), line 166
starts_with_pdf(b) == Len(b) >= 1 /\ b[1] = "%PDF"

\* lines 49-56: the dict returned once _download_pdf_content has returned
attach_pdf(basic_info, pdf_content) ==
    IF Truthy(pdf_content)
    THEN ("pdf_content" :> pdf_content)
         @@ ("pdf_size" :> [t |-> "int", v |-> Len(pdf_content.v)])
         @@ basic_info
    ELSE basic_info

-----------------------------------------------------------------------------
(* The raw results the normaliser is run on *)

MaxCreators == 16      \* longest creators list
MaxOffset == 1         \* rotations of the creator pool
MaxSpaces == 2         \* longest run of blanks between the parts of a date
MaxDownloads == 2      \* download events during one extraction

Absent == [t |-> "absent", v |-> << >>]

\* the dict {k: x}, or {} when the key is left out
Field(k, x) == IF x.t = "absent" THEN EmptyDict ELSE k :> x

Today == PyStr(<<"2", "0", "2", "6", "-", "1", "1", "-", "0", "1">>)

CreatorPool ==
    <<[creatorType |-> PyStr(<<"author">>), firstName |-> PyStr(<<"Jane">>),
       lastName |-> PyStr(<<"Doe">>)],
      [creatorType |-> PyStr(<<"editor">>), firstName |-> PyStr(<<"John">>),
       lastName |-> PyStr(<<"Smith">>)],
      [creatorType |-> PyStr(<<"author">>), firstName |-> PyStr(<< >>),
       lastName |-> PyStr(<<"Consortium">>)],
      [creatorType |-> PyStr(<<"author">>), firstName |-> PyStr(<<"Solo">>),
       lastName |-> PyStr(<< >>)]>>

CreatorsOfLength(n, off) ==
    [i \in 1..n |-> CreatorPool[((i + off) % Len(CreatorPool)) + 1]]

\* a single creator dict where the list is expected: truthy, not a list
LoneCreatorDict == [t |-> "dict", v |-> <<CreatorPool[1]>>]

CreatorsInputs ==
    { PyList(CreatorsOfLength(n, off)) : n \in 0..MaxCreators, off \in 0..MaxOffset }
    \cup {Absent, PyNone, LoneCreatorDict}

AuthorsInputs ==
    {Absent, PyStr(<< >>),
     PyStr(<<"Jane", " ", "A.", " ", "Doe", ",", " ", "John", " ", "Smith">>),
     PyStr(<<"Ann", " ", "Lee", ";", " ", "Bo", " ", "Chan", ";">>)}

OneCreator == PyList(CreatorsOfLength(1, 0))
SomeAuthors == PyStr(<<"Ann", " ", "Lee", ",", " ", "Bo", " ", "Chan">>)

\* Branch A, B and C of the creator list builder
BranchInputs ==
    { Field("creators", OneCreator),
      Field("authors", SomeAuthors),
      Field("creators", OneCreator) @@ Field("authors", SomeAuthors),
      EmptyDict }

Blanks == { [i \in 1..n |-> " "] : n \in 1..MaxSpaces }

DayParts == {<<"5">>, <<"2", "1">>}
YearParts == {<<"2", "0", "2", "5">>}

MonthWords ==
    {<<"S", "e", "p">>, <<"s", "e", "p">>, <<"S", "E", "P">>,
     <<"S", "e", "p", "t", "e", "m", "b", "e", "r">>,
     <<"J", "a", "n">>, <<"D", "e", "c">>, <<"d", "E", "C">>,
     <<"F", "o", "o">>, <<"M", "a">>, <<"1", "1">>}

DayMonthYearDates ==
    { d \o b1 \o w \o b2 \o y :
        d \in DayParts, b1 \in Blanks, w \in MonthWords, b2 \in Blanks, y \in YearParts }

IsoDates ==
    { <<"2", "0", "2", "5">> \o <<sep>> \o m \o <<sep>> \o d :
        sep \in {"-", "/"}, m \in {<<"0", "9">>, <<"9">>, <<"1", "2">>},
        d \in {<<"2", "1">>, <<"0", "5">>, <<"5">>} }

OtherDates ==
    { << >>, UnknownDate, <<"2", "0", "2", "4">>,
      <<"2", "0", "2", "4", "5">>, <<"2", "0", "2">>,
      <<"S", "e", "p", " ", "2", "0", "2", "5">>,
      <<"n", ".", "d", ".">>,
      <<"o", "n", " ", "2", "1", " ", "S", "e", "p", " ", "2", "0", "2", "5">>,
      <<"2", "1", "-", "S", "e", "p", "-", "2", "0", "2", "5">>,
      <<"2", "0", "2", "5", "-", "0", "9">> }

DateInputs ==
    {Absent, PyNone} \cup { PyStr(d) : d \in DayMonthYearDates \cup IsoDates \cup OtherDates }

NatureUrl == PyStr(<<"https://www.", "nature.com", "/articles/", "s41586">>)

UrlInputs ==
    { Absent, PyStr(<< >>), NatureUrl,
      PyStr(<<"https://", "arxiv.org", "/abs/", "2301.00001">>),
      PyStr(<<"https://export.", "arxiv.org", "/pdf/", "2301.00001">>),
      PyStr(<<"https://", "ARXIV.ORG", "/abs/", "2301.00001">>),
      PyStr(<<"https://www.", "biorxiv.org", "/content/", "10.1101/", "x">>),
      PyStr(<<"https://www.", "medrxiv.org", "/content/", "10.1101/", "x">>) }

ItemTypeInputs ==
    {Absent, PyStr(<< >>), PyStr(<<"journalArticle">>), PyStr(<<"preprint">>)}

RepositoryInputs ==
    {Absent, PyStr(<< >>), PyStr(<<"Nature">>)}
    \cup { PyStr(r) : r \in PreprintRepositories }

Title == PyStr(<<"A", " ", "Paper">>)

DefaultInfo == Field("title", Title) @@ Field("url", NatureUrl)

\* the creators and authors shapes, everything else fixed
CreatorsFamily ==
    { Field("creators", c) @@ Field("authors", a) @@ DefaultInfo :
        c \in CreatorsInputs, a \in AuthorsInputs }

\* the date shapes
DateFamily ==
    { Field("date", d) @@ b @@ DefaultInfo : d \in DateInputs, b \in BranchInputs }

\* the item type signals
TypeFamily ==
    { Field("url", u) @@ Field("itemType", it) @@ Field("repository", r) @@ b
      @@ Field("title", Title) :
        u \in UrlInputs, it \in ItemTypeInputs, r \in RepositoryInputs,
        b \in BranchInputs }

\* present, empty and missing fields, and the error annotation
FieldFamily ==
    { Field("title", t) @@ Field("abstract", ab) @@ Field("abstractNote", an)
      @@ Field("DOI", doi) @@ Field("libraryCatalog", lc) @@ Field("error", e)
      @@ Field("date", d) @@ b @@ Field("url", NatureUrl) :
        t \in {Absent, PyStr(<< >>), PyNone, Title},
        ab \in {Absent, PyStr(<< >>), PyStr(<<"abstract text">>)},
        an \in {Absent, PyStr(<< >>), PyStr(<<"note text">>)},
        doi \in {Absent, PyStr(<< >>), PyStr(<<"10.1038/", "x">>)},
        lc \in {Absent, PyStr(<<"bioRxiv">>)},
        e \in {Absent, PyStr(<<"timeout">>)},
        d \in {Absent, PyStr(<<"2", "1", " ", "S", "e", "p", " ", "2", "0", "2", "5">>)},
        b \in BranchInputs }

\* names of three, two and one word
NamePool == <<<<"Jane", "A.", "Doe">>, <<"John", "Smith">>, <<"Consortium">>>>

NameOf(i) == NamePool[(i % Len(NamePool)) + 1]

\* the words of a name written out with gap between them
RECURSIVE NameText(_, _)
NameText(ws, gap) ==
    IF Len(ws) <= 1 THEN ws ELSE <<Head(ws)>> \o gap \o NameText(Tail(ws), gap)

\* the authors strings "X, Y and Z" and "X, Y & Z"
AndWords == {"and", "&"}
AndForm(x, y, z, w) ==
    NameText(x, <<" ">>) \o <<",", " ">> \o NameText(y, <<" ">>)
    \o <<" ", w, " ">> \o NameText(z, <<" ">>)

\* n names written as a list: sep between two names, gap between two
\* words; style "trailing" ends the list with a separator, style "doubled"
\* writes every separator twice
ListStyles == {"plain", "trailing", "doubled"}
ListSeparators == {",", ";"}
RECURSIVE NameList(_, _, _, _, _)
NameList(i, n, sep, style, gap) ==
    IF i > n THEN << >>
    ELSE NameText(NameOf(i), gap)
         \o (IF i < n \/ style # "plain"
              THEN (IF style = "doubled" THEN <<sep, sep, " ">> ELSE <<sep, " ">>)
              ELSE << >>)
         \o NameList(i + 1, n, sep, style, gap)

MaxNames == 16         \* longest list of names in an authors string

ListParams ==
    [n : 0..MaxNames, sep : ListSeparators, style : ListStyles, gap : Blanks]

ListText(q) == NameList(1, q.n, q.sep, q.style, q.gap)

NameListInputs ==
    { PyStr(ListText(q)) : q \in ListParams }
    \cup { PyStr(AndForm(NamePool[i], NamePool[j], NamePool[k], w)) :
             i \in 1..3, j \in 1..3, k \in 1..3, w \in AndWords }

\* free-text authors, with no creators list or an empty one
AuthorsFamily ==
    { Field("creators", c) @@ Field("authors", a) @@ DefaultInfo :
        c \in {Absent, PyList(<< >>)}, a \in NameListInputs }

RawResults ==
    CreatorsFamily \cup DateFamily \cup TypeFamily \cup FieldFamily \cup AuthorsFamily

-----------------------------------------------------------------------------
(* The URLs the extractor is asked about, and what a download delivers *)

Schemes == {<<"https://www.">>, <<"http://">>}

Hosts == {<<"biorxiv.org">>, <<"BioRxiv.org">>, <<"connect.", "biorxiv.org">>,
          <<"medrxiv.org">>, <<"arxiv.org">>}

Paths ==
    { <<"/content/", "10.1101/", "2", "0", "2", "4", ".", "0", "1", ".", "0", "2",
        ".", "5", "6", "7", "v1">>,
      <<"/content/", "10.1101/", "2", "0", "2", "5", ".", "0", "9", ".", "2", "1",
        ".", "6", "v2", ".full.pdf">>,
      <<"/content/", "10.1101/", "2", "0", "2", "4", ".", "0", "1">>,
      <<"/content/", "10.1101/", "6", "7", "7", "6", "0", "7">>,
      <<"/content/early/recent">>,
      << >> }

ExtractUrls == { s \o h \o p : s \in Schemes, h \in Hosts, p \in Paths }

DownloadedBytes ==
    { PyBytes(<<"%PDF", "-1.7 ...">>), PyBytes(<<"<htm", "l> ...">>), PyBytes(<< >>) }

NoDownload == [pdf_content |-> PyNone, download_success |-> FALSE, events |-> 0]

-----------------------------------------------------------------------------
(* The normaliser applied to a raw result *)

NormIdle ==
    /\ paper_info = EmptyDict
    /\ zotero_item = EmptyDict
    /\ pc = "idle"

ExtractIdle ==
    /\ url = << >>
    /\ download = NoDownload
    /\ result = NoResult
    /\ xpc = "idle"

SaveIdle ==
    /\ paper_title = PyNone
    /\ download_result = EmptyDict
    /\ submitted = EmptyDict
    /\ pdf_path = PyNone
    /\ save_result = EmptyDict
    /\ fetched = << >>
    /\ zotero_result = EmptyDict
    /\ spc = "idle"

DispatchIdle ==
    /\ selected = "none"
    /\ invoked = << >>
    /\ metadata = EmptyDict
    /\ dpc = "idle"

ConcurrentIdle ==
    /\ now = 0
    /\ tmpfiles = EmptyDict
    /\ req = << >>

NoDownloader == [made |-> FALSE, cookies |-> {}]

CookiesIdle ==
    /\ downloader = NoDownloader
    /\ history = << >>

NoReport == [lines |-> << >>, success_count |-> 0, total_files |-> 0, text |-> "none"]

BatchIdle ==
    /\ papers = << >>
    /\ batch_report = NoReport
    /\ bpc = "start"

NoSearch == [papers |-> << >>, total_found |-> 0, error |-> FALSE]

SearchIdle ==
    /\ site_pages = << >>
    /\ max_results = 0
    /\ search_results = NoSearch
    /\ pages_fetched = 0
    /\ qpc = "start"

NoExtraction == [format |-> "none", original_path |-> << >>]

ZipIdle ==
    /\ file_list = << >>
    /\ zip_result = NoExtraction
    /\ zpc = "start"

NotRun == [tool |-> "none", dry_run |-> FALSE]

MaintenanceIdle ==
    /\ fs = << >>
    /\ fs_before = << >>
    /\ ran = NotRun

TreeIdle ==
    /\ collections = << >>
    /\ tree_text = << >>
    /\ tpc = "start"

ToolsIdle ==
    /\ CookiesIdle
    /\ BatchIdle
    /\ SearchIdle
    /\ ZipIdle
    /\ MaintenanceIdle
    /\ TreeIdle

Init ==
    /\ paper_info \in RawResults
    /\ zotero_item = EmptyDict
    /\ pc = "start"
    /\ ConcurrentIdle
    /\ ExtractIdle
    /\ SaveIdle
    /\ DispatchIdle
    /\ ToolsIdle

\* zotero_connector._convert_to_zotero_format(paper_info), line 209
Convert ==
    /\ pc = "start"
    /\ zotero_item' = patched_convert_to_zotero_format(paper_info, Today)
    /\ pc' = "done"
    /\ UNCHANGED <<paper_info, extrVars, saveVars, dispVars, concVars, toolVars>>

Next == Convert

Spec == Init /\ [][Next]_vars

-----------------------------------------------------------------------------
(* One extraction request: BioRxivDirectExtractor.extract_metadata(url)  *)

InitExtract ==
    /\ NormIdle
    /\ ConcurrentIdle
    /\ SaveIdle
    /\ DispatchIdle
    /\ ToolsIdle
    /\ url \in ExtractUrls
    /\ download = NoDownload
    /\ result = NoResult
    /\ xpc = "request"

\* lines 38-39: not a bioRxiv URL
Reject ==
    /\ xpc = "request"
    /\ ~can_handle(url)
    /\ result' = Returned(EmptyDict)
    /\ xpc' = "done"
    /\ UNCHANGED <<url, download, normVars, saveVars, dispVars, concVars, toolVars>>

\* lines 44-47 when _extract_from_url returned the error dict:
\* basic_info['pdf_url'] raises KeyError
ExtractFault ==
    /\ xpc = "request"
    /\ can_handle(url)
    /\ "pdf_url" \notin DOMAIN extract_from_url(url)
    /\ result' = Raised("KeyError")
    /\ xpc' = "done"
    /\ UNCHANGED <<url, download, normVars, saveVars, dispVars, concVars, toolVars>>

\* lines 44-47: _download_pdf_content(basic_info['pdf_url']) is entered
StartDownload ==
    /\ xpc = "request"
    /\ can_handle(url)
    /\ "pdf_url" \in DOMAIN extract_from_url(url)
    /\ xpc' = "downloading"
    /\ UNCHANGED <<url, download, result, normVars, saveVars, dispVars, concVars, toolVars>>

\* handle_download, lines 154-175, on one download event delivering b
HandleDownload(b) ==
    /\ xpc = "downloading"
    /\ download.events < MaxDownloads
    /\ download' = [pdf_content |-> b,
                    download_success |-> (download.download_success
                                          \/ (Truthy(b) /\ starts_with_pdf(b.v))),
                    events |-> download.events + 1]
    /\ UNCHANGED <<url, result, xpc, normVars, saveVars, dispVars, concVars, toolVars>>

\* handle_download when save_as or the read raises: lines 174-175
HandleDownloadFault ==
    /\ xpc = "downloading"
    /\ download.events < MaxDownloads
    /\ download' = [download EXCEPT !.events = @ + 1]
    /\ UNCHANGED <<url, result, xpc, normVars, saveVars, dispVars, concVars, toolVars>>

\* lines 190-195 and 49-56: the wait loop ends, pdf_content is returned
FinishDownload ==
    /\ xpc = "downloading"
    /\ result' = Returned(attach_pdf(extract_from_url(url), download.pdf_content))
    /\ xpc' = "done"
    /\ UNCHANGED <<url, download, normVars, saveVars, dispVars, concVars, toolVars>>

\* lines 104-106: the download thread raised or timed out, None is returned
DownloadFault ==
    /\ xpc = "downloading"
    /\ result' = Returned(attach_pdf(extract_from_url(url), PyNone))
    /\ xpc' = "done"
    /\ UNCHANGED <<url, download, normVars, saveVars, dispVars, concVars, toolVars>>

NextExtract ==
    \/ Reject
    \/ ExtractFault
    \/ StartDownload
    \/ \E b \in DownloadedBytes : HandleDownload(b)
    \/ HandleDownloadFault
    \/ FinishDownload
    \/ DownloadFault

SpecExtract == InitExtract /\ [][NextExtract]_vars

-----------------------------------------------------------------------------
(* Properties of the normaliser (specification Spec) *)

Preprint == PyStr(<<"preprint">>)
JournalArticle == PyStr(<<"journalArticle">>)

\* the raw result carries a non-empty creators list
HasCreatorsList(pi) ==
    /\ "creators" \in DOMAIN pi
    /\ pi["creators"].t = "list"
    /\ pi["creators"].v # << >>

\* the raw result carries a non-empty authors string
HasAuthorsString(pi) ==
    /\ "authors" \in DOMAIN pi
    /\ pi["authors"].t = "str"
    /\ pi["authors"].v # << >>

\* the normaliser declined a faulted result: it handed the raw result back
Refused == "error" \in DOMAIN paper_info /\ zotero_item = paper_info

\* C1: for a raw result whose creators field is a non-empty list of n
\* creator objects, the creators of the record are the first min(n, 15)
\* entries of that list, in order, each entry unchanged.
C1_CreatorsPassThrough ==
    (pc = "done" /\ HasCreatorsList(paper_info)) =>
        LET given == paper_info["creators"].v
            kept == IF Len(given) < 15 THEN Len(given) ELSE 15
        IN /\ "creators" \in DOMAIN zotero_item
           /\ zotero_item["creators"].t = "list"
           /\ Len(zotero_item["creators"].v) = kept
           /\ \A i \in 1..kept : zotero_item["creators"].v[i] = given[i]

C1_Witness ==
    /\ pc = "done"
    /\ HasCreatorsList(paper_info)
    /\ Len(paper_info["creators"].v) > 15
    /\ Len(zotero_item["creators"].v) = 15
    /\ zotero_item["creators"].v[15] = paper_info["creators"].v[15]

\* the raw result with its authors entry replaced by a (left out when Absent)
WithAuthors(pi, a) ==
    Field("authors", a) @@ [k \in DOMAIN pi \ {"authors"} |-> pi[k]]

\* C2: when a raw result carries both a non-empty authors string and a
\* non-empty creators list, the creators of the record do not depend on the
\* authors string: any other authors string gives the same creators.
C2_AuthorsStringIgnored ==
    (pc = "done" /\ HasCreatorsList(paper_info) /\ HasAuthorsString(paper_info)) =>
        \A a \in AuthorsInputs :
            Get(patched_convert_to_zotero_format(WithAuthors(paper_info, a), Today),
                "creators", PyNone)
            = Get(zotero_item, "creators", PyNone)

C2_Witness ==
    /\ pc = "done"
    /\ HasCreatorsList(paper_info)
    /\ HasAuthorsString(paper_info)
    /\ "creators" \in DOMAIN zotero_item
    /\ zotero_item["creators"].v = paper_info["creators"].v
    /\ zotero_item["creators"].v # parse_authors(paper_info["authors"].v)

\* the raw result names a preprint server, by repository or by URL
PreprintSignal(pi) ==
    \/ Get(pi, "repository", PyNone).v \in PreprintRepositories
    \/ \E d \in PreprintDomains \cup {ArxivMarker} :
           Contains(Get(pi, "url", PyStr(<< >>)).v, d)

\* C3: a raw result without an itemType hint gets itemType preprint when
\* its repository or URL names a preprint server, and journalArticle when
\* it carries no preprint signal.
C3_PreprintByRepository ==
    (pc = "done" /\ ~Refused /\ "itemType" \notin DOMAIN paper_info) =>
        Get(zotero_item, "itemType", PyNone)
        = IF PreprintSignal(paper_info) THEN Preprint ELSE JournalArticle

\* C4: a raw result whose url contains the arXiv marker gets itemType
\* preprint, whatever itemType hint and repository it carries.
C4_ArxivIsPreprint ==
    (/\ pc = "done"
     /\ ~Refused
     /\ Contains(Get(paper_info, "url", PyStr(<< >>)).v, ArxivMarker)) =>
        Get(zotero_item, "itemType", PyNone) = Preprint

C4_Witness ==
    /\ pc = "done"
    /\ HasCreatorsList(paper_info)
    /\ Contains(Get(paper_info, "url", PyStr(<< >>)).v, ArxivMarker)
    /\ Get(paper_info, "itemType", PyNone) = JournalArticle
    /\ Get(paper_info, "repository", PyNone) = PyStr(<< >>)
    /\ zotero_item["itemType"] = Preprint

\* the whole string is <day> <word> <year>: the matches that span it
WholeDayMonthYear(s) ==
    { m \in DayMonthYearMatches(s) :
        m[1] = 1 /\ m[1] + m[2] + m[3] + m[4] + m[5] + 3 = Len(s) }

IsLetter(c) == c \in UpperLetters \cup LowerLetters

\* the whole string is <day> <month name> <year>, the name in any letter case
IsDayMonthNameYear(s) ==
    \E m \in WholeDayMonthYear(s) :
        /\ \A k \in 1..Len(match_month_name(s, m)) : IsLetter(match_month_name(s, m)[k])
        /\ MonthAbbrevs(match_month_name(s, m)) # {}

\* YYYY-MM-DD for such a string
ExpectedIso(s) ==
    LET m == CHOOSE x \in WholeDayMonthYear(s) : TRUE
        a == CHOOSE x \in MonthAbbrevs(match_month_name(s, m)) : TRUE
    IN match_year(s, m) \o <<"-">> \o months[a] \o <<"-">> \o zfill2(match_day(s, m))

DateGiven(pi) == "date" \in DOMAIN pi /\ pi["date"].t = "str" /\ pi["date"].v # << >>

\* C5: a date <day> <month-name> <year> whose month name starts with one
\* of the twelve abbreviations, in any letter case, is normalised to
\* YYYY-MM-DD with that month's number and the day zero-padded.
C5_MonthNameAnyCase ==
    (/\ pc = "done"
     /\ ~Refused
     /\ DateGiven(paper_info)
     /\ IsDayMonthNameYear(paper_info["date"].v)) =>
        Get(zotero_item, "date", PyNone) = PyStr(ExpectedIso(paper_info["date"].v))

\* the string holds <day> <month name> <year> somewhere
HoldsDayMonthNameYear(s) ==
    \E m \in DayMonthYearMatches(s) : MonthAbbrevs(match_month_name(s, m)) # {}

\* C6: a date that is none of <day> <month-name> <year> with a real month
\* name, <year>[-/]<month>[-/]<day>, and exactly four digits is returned
\* character for character: no month is invented for it.
C6_NoFabricatedDate ==
    (/\ pc = "done"
     /\ ~Refused
     /\ DateGiven(paper_info)
     /\ ~HoldsDayMonthNameYear(paper_info["date"].v)
     /\ ~IsoLikeFound(paper_info["date"].v)
     /\ ~(Len(paper_info["date"].v) = 4 /\ AllDigits(paper_info["date"].v, 1, 4))) =>
        Get(zotero_item, "date", PyNone) = paper_info["date"]

\* the string is YYYY-MM-DD
IsCanonicalDate(s) ==
    /\ Len(s) = 10
    /\ AllDigits(s, 1, 4) /\ s[5] = "-"
    /\ AllDigits(s, 6, 7) /\ s[8] = "-"
    /\ AllDigits(s, 9, 10)

\* C7: a date already of the form YYYY-MM-DD is returned as it is.
C7_CanonicalDateKept ==
    (pc = "done" /\ DateGiven(paper_info) /\ IsCanonicalDate(paper_info["date"].v)) =>
        Get(zotero_item, "date", PyNone) = paper_info["date"]

C7_Witness ==
    /\ pc = "done"
    /\ HasCreatorsList(paper_info)
    /\ DateGiven(paper_info)
    /\ IsCanonicalDate(paper_info["date"].v)
    /\ zotero_item["date"] = paper_info["date"]

\* C8: the record the normaliser returns holds no key whose value is an
\* empty string, None or an empty collection.
C8_NoEmptyValues ==
    (pc = "done" /\ ~Refused) =>
        \A k \in DOMAIN zotero_item : Truthy(zotero_item[k])

C8_Witness ==
    /\ pc = "done"
    /\ ~HasAuthorsString(paper_info)
    /\ "title" \in DOMAIN paper_info
    /\ ~Truthy(paper_info["title"])
    /\ "title" \notin DOMAIN zotero_item
    /\ "creators" \notin DOMAIN zotero_item
    /\ "accessDate" \in DOMAIN zotero_item

Creators(item) == Get(item, "creators", PyList(<< >>)).v

FreeText(pi) == HasAuthorsString(pi) /\ ~HasCreatorsList(pi)

\* a creator's name written out: given name, one blank, family name
FullName(c) ==
    IF Truthy(c.firstName) THEN c.firstName.v \o <<" ">> \o c.lastName.v
    ELSE c.lastName.v

\* C14: an authors string "X, Y and Z" with no creators list gives exactly
\* three creators, for X, Y and Z in that order.
C14_AndSeparates ==
    (pc = "done" /\ FreeText(paper_info)) =>
        \A i \in 1..3, j \in 1..3, k \in 1..3 :
            paper_info["authors"].v = AndForm(NamePool[i], NamePool[j], NamePool[k], "and")
            => /\ Len(Creators(zotero_item)) = 3
               /\ FullName(Creators(zotero_item)[1]) = NameText(NamePool[i], <<" ">>)
               /\ FullName(Creators(zotero_item)[2]) = NameText(NamePool[j], <<" ">>)
               /\ FullName(Creators(zotero_item)[3]) = NameText(NamePool[k], <<" ">>)

C14_Witness ==
    /\ pc = "done"
    /\ FreeText(paper_info)
    /\ paper_info["authors"].v = AndForm(NamePool[1], NamePool[3], NamePool[2], "and")
    /\ Len(Creators(zotero_item)) = 3
    /\ Creators(zotero_item)[3].lastName = PyStr(<<"Smith">>)

\* the creator the words of one name stand for: the last word is the
\* family name, the words before it, one blank apart, the given name
NameSplit(ws) ==
    [creatorType |-> PyStr(<<"author">>),
     firstName |-> PyStr(NameText(SubSeq(ws, 1, Len(ws) - 1), <<" ">>)),
     lastName |-> PyStr(<<ws[Len(ws)]>>)]

JaneAndJohn == <<"Jane", " ", "A.", " ", "Doe", ",", " ", "John", " ", "Smith">>

\* C15: a name of one word gives lastName = the word and an empty
\* firstName; a name of two or more words gives lastName = the last word
\* and firstName = the words before it joined by single blanks.
C15_LastWordIsFamilyName ==
    (pc = "done" /\ FreeText(paper_info)) =>
        /\ \A q \in ListParams :
               paper_info["authors"].v = ListText(q)
               => /\ q.n > 0 => Creators(zotero_item) # << >>
                  /\ \A i \in 1..Len(Creators(zotero_item)) :
                         Creators(zotero_item)[i] = NameSplit(NameOf(i))
        /\ paper_info["authors"].v = JaneAndJohn
           => Creators(zotero_item) =
                  <<NameSplit(<<"Jane", "A.", "Doe">>), NameSplit(<<"John", "Smith">>)>>

C15_Witness ==
    /\ pc = "done"
    /\ FreeText(paper_info)
    /\ \E q \in ListParams :
           /\ q.n = 3
           /\ q.gap = <<" ", " ">>
           /\ paper_info["authors"].v = ListText(q)
    /\ Len(Creators(zotero_item)) = 3
    /\ Creators(zotero_item)[2].firstName = PyStr(<< >>)
    /\ Creators(zotero_item)[3].firstName = PyStr(<<"Jane", " ", "A.">>)

\* C16: the creators parsed from an authors string are one per name that
\* is not empty, in the order of the string, cut to the first 15; the empty
\* pieces left by trailing or doubled separators give no creator, and no
\* record has more than 15 creators.
C16_OnePerNameCapped ==
    (pc = "done" /\ ~Refused) =>
        /\ Len(Creators(zotero_item)) <= 15
        /\ FreeText(paper_info) =>
               \A q \in ListParams :
                   paper_info["authors"].v = ListText(q)
                   => /\ Len(Creators(zotero_item)) = (IF q.n < 15 THEN q.n ELSE 15)
                      /\ \A i \in 1..Len(Creators(zotero_item)) :
                             FullName(Creators(zotero_item)[i])
                             = NameText(NameOf(i), <<" ">>)

C16_Witness ==
    /\ pc = "done"
    /\ FreeText(paper_info)
    /\ \E q \in ListParams :
           /\ q.n > 15
           /\ q.style = "doubled"
           /\ paper_info["authors"].v = ListText(q)
    /\ Len(Creators(zotero_item)) = 15

\* C17: a raw result with neither a non-empty creators list nor a
\* non-empty authors string gets no creators, and the rest of its record is
\* still built: access date, item type (unless it came empty), and the
\* title and URL it came with.
C17_NoCreatorsStillARecord ==
    (pc = "done" /\ ~HasCreatorsList(paper_info) /\ ~HasAuthorsString(paper_info)) =>
        /\ Creators(zotero_item) = << >>
        /\ Truthy(Get(paper_info, "itemType", JournalArticle))
               => "itemType" \in DOMAIN zotero_item
        /\ "accessDate" \in DOMAIN zotero_item
        /\ \A k \in {"title", "url"} :
               Truthy(Get(paper_info, k, PyNone)) =>
                   Get(zotero_item, k, PyNone) = paper_info[k]

C17_Witness ==
    /\ pc = "done"
    /\ "creators" \notin DOMAIN paper_info
    /\ "authors" \notin DOMAIN paper_info
    /\ "creators" \notin DOMAIN zotero_item
    /\ Get(zotero_item, "title", PyNone) = Title
    /\ "accessDate" \in DOMAIN zotero_item

-----------------------------------------------------------------------------
(* Properties of the extraction request (specification SpecExtract) *)

\* C10: for a URL the extractor accepts but from which no metadata can be
\* extracted, the request returns, without raising, a result that carries
\* an error annotation and an empty title.
C10_UnextractableReturnsError ==
    (xpc = "done" /\ can_handle(url) /\ DoiStarts(url) = {}) =>
        /\ result.kind = "return"
        /\ "error" \in DOMAIN result.value
        /\ Get(result.value, "title", PyStr(<< >>)).v = << >>
        /\ "date" \notin DOMAIN result.value

\* C28: whenever the result of extract_metadata contains pdf_content, those
\* bytes begin with %PDF: the bytes of a download that failed the PDF check
\* are never attached.
C28_AttachedBytesArePdf ==
    (xpc = "done" /\ result.kind = "return" /\ "pdf_content" \in DOMAIN result.value) =>
        starts_with_pdf(result.value["pdf_content"].v)


-----------------------------------------------------------------------------
(* legacy/downloader.py: download_and_save_to_zotero                       *)

PyTrue == [t |-> "bool", v |-> <<"True">>]
PyFalse == [t |-> "bool", v |-> << >>]

\* the four characters of the literal on line 883, one token per character
UnknownTitle == <<"U+672A", "U+77E5", "U+6807", "U+9898">>

\* the message texts are kept as single tokens
Msg(text) == PyStr(<<text>>)

\* _generate_filename(title, extension): the cleaned title, or the
\* nature_paper_<time> stem for an empty title, then "." and the extension
generate_filename(title, extension) ==
    PyStr((IF Truthy(title) THEN title.v ELSE <<"nature_paper_", "1">>)
          \o <<".", extension>>)

\* file_path.endswith(".pdf")
endswith_pdf(file_path) ==
    /\ Len(file_path.v) >= 2
    /\ SubSeq(file_path.v, Len(file_path.v) - 1, Len(file_path.v)) = <<".", "pdf">>

\* one attempted file download: what was fetched, under which file name,
\* and whether _download_file / _save_html_content returned True
Attempt(what, file, ok) == [what |-> what, file |-> file, ok |-> ok]

\* mutant of pdf_attempts: the loops go on after a successful download
RECURSIVE pdf_attempts_no_break(_, _)
pdf_attempts_no_break(links, title) ==
    IF links = << >> THEN << >>
    ELSE IF Head(links) = "empty" THEN pdf_attempts_no_break(Tail(links), title)
    ELSE <<Attempt("pdf", generate_filename(title, "pdf"), Head(links) = "ok")>>
         \o pdf_attempts_no_break(Tail(links), title)

\* lines 366-387: the PDF links of the page, in the order the selectors
\* find them; a link is "empty" (no href), "fail" or "ok" (its download
\* fails or succeeds); the loops end with the first download that succeeds
RECURSIVE pdf_attempts(_, _)
pdf_attempts(links, title) ==
    IF links = << >> THEN << >>
    ELSE IF Head(links) = "empty" THEN pdf_attempts(Tail(links), title)
    ELSE IF Head(links) = "ok"
    THEN <<Attempt("pdf", generate_filename(title, "pdf"), TRUE)>>
    ELSE <<Attempt("pdf", generate_filename(title, "pdf"), FALSE)>>
         \o pdf_attempts(Tail(links), title)

IsOk(a) == a.ok

\* lines 389-397: the HTML version when no PDF was downloaded, then the
\* supplementary files (those whose download succeeded)
fetch_log(title, links, html_ok, supplementary) ==
    LET pdfs == pdf_attempts(links, title)
        pdf_downloaded == \E i \in 1..Len(pdfs) : pdfs[i].ok
    IN pdfs
       \o (IF ~pdf_downloaded
           THEN <<Attempt("html", generate_filename(title, "html"), html_ok)>>
           ELSE << >>)
       \o [i \in 1..Len(supplementary) |-> Attempt("supp", supplementary[i], TRUE)]

\* lines 349-406: download_paper(paper_url, paper_title) once the page was
\* fetched; files are the names of the downloads that succeeded
download_paper(title, links, html_ok, supplementary) ==
    LET done == SelectSeq(fetch_log(title, links, html_ok, supplementary), IsOk)
        files == [i \in 1..Len(done) |-> done[i].file]
    IN IF files # << >>
       THEN ("success" :> PyTrue @@ "files" :> PyList(files)
             @@ "message" :> Msg("downloaded"))
       ELSE ("success" :> PyFalse @@ "files" :> PyList(<< >>)
             @@ "message" :> Msg("nothing downloaded"))

\* download_paper's except branch (lines 408-414)
download_paper_failed ==
    "success" :> PyFalse @@ "files" :> PyList(<< >>) @@ "message" :> Msg("download failed")

\* the first file of download_result["files"] that ends with .pdf, or None
RECURSIVE first_pdf(_)
first_pdf(files) ==
    IF files = << >> THEN PyNone
    ELSE IF endswith_pdf(Head(files)) THEN Head(files)
    ELSE first_pdf(Tail(files))

\* line 883: paper_title or download_result.get("title", <unknown title>)
save_title(title, dr) == PyOr(title, Get(dr, "title", PyStr(UnknownTitle)))

\* lines 882-889: the paper_info handed to save_to_zotero
save_paper_info(paper_url, title, dr) ==
    "title" :> save_title(title, dr)
    @@ "url" :> PyStr(paper_url)
    @@ "authors" :> Get(dr, "authors", PyStr(<< >>))
    @@ "abstract" :> Get(dr, "abstract", PyStr(<< >>))
    @@ "journal" :> PyStr(<<"Nature">>)
    @@ "date" :> Get(dr, "date", PyStr(<< >>))

\* what save_to_zotero can return: a saved item, or a refusal
SavedItem ==
    "success" :> PyTrue @@ "message" :> Msg("saved")
    @@ "zotero_key" :> PyStr(<<"ABCD1234">>)
    @@ "zotero_url" :> PyStr(<<"zotero://select/items/ABCD1234">>)
NotSaved == "success" :> PyFalse @@ "message" :> Msg("zotero unavailable")
ZoteroResults == {SavedItem, NotSaved}

\* mutant of save_outcome: success whatever save_to_zotero returned
save_outcome_always_success(dr, zr) ==
    "success" :> PyTrue @@ "message" :> Msg("downloaded and saved")
    @@ "download_files" :> Get(dr, "files", PyList(<< >>))
    @@ "zotero_key" :> Get(zr, "zotero_key", PyNone)
    @@ "zotero_url" :> Get(zr, "zotero_url", PyNone)

\* lines 894-907: the return value built from zotero_result
save_outcome(dr, zr) ==
    IF Truthy(zr["success"])
    THEN ("success" :> PyTrue @@ "message" :> Msg("downloaded and saved")
          @@ "download_files" :> Get(dr, "files", PyList(<< >>))
          @@ "zotero_key" :> Get(zr, "zotero_key", PyNone)
          @@ "zotero_url" :> Get(zr, "zotero_url", PyNone))
    ELSE ("success" :> PyFalse @@ "message" :> Msg("downloaded but not saved")
          @@ "download_files" :> Get(dr, "files", PyList(<< >>)))

\* inputs of a call
MaxSupplementary == 2
CallerTitles == {PyStr(<< >>), PyStr(<<"Caller", "Title">>), PyStr(<<"A", "Paper">>)}
SupplementaryPool == <<PyStr(<<"supplementary_data", ".", "zip">>),
                       PyStr(<<"supplementary_info", ".", "pdf">>),
                       PyStr(<<"supplementary_code", ".", "zip">>)>>
SupplementaryFiles == { Take(SupplementaryPool, n) : n \in 0..MaxSupplementary }

MaxLinks == 2          \* PDF links found on the page
LinkOutcomes == {"empty", "fail", "ok"}
PdfLinks == UNION { [1..n -> LinkOutcomes] : n \in 0..MaxLinks }

InitSave ==
    /\ NormIdle
    /\ ConcurrentIdle
    /\ ExtractIdle
    /\ DispatchIdle
    /\ ToolsIdle
    /\ paper_title \in CallerTitles
    /\ download_result = EmptyDict
    /\ submitted = EmptyDict
    /\ pdf_path = PyNone
    /\ save_result = EmptyDict
    /\ fetched = << >>
    /\ zotero_result = EmptyDict
    /\ spc = "start"

\* line 871: download_result = self.download_paper(paper_url, paper_title)
DownloadPaper ==
    /\ spc = "start"
    /\ \/ \E links \in PdfLinks, html_ok \in BOOLEAN, supp \in SupplementaryFiles :
            /\ fetched' = fetch_log(paper_title, links, html_ok, supp)
            /\ download_result' = download_paper(paper_title, links, html_ok, supp)
       \/ /\ fetched' = << >>
          /\ download_result' = download_paper_failed
    /\ spc' = "downloaded"
    /\ UNCHANGED <<paper_title, submitted, pdf_path, save_result, zotero_result,
                   normVars, extrVars, dispVars, concVars, toolVars>>

\* lines 873-877: the download failed
DownloadFailed ==
    /\ spc = "downloaded"
    /\ ~Truthy(download_result["success"])
    /\ save_result' = ("success" :> PyFalse @@ "message" :> Msg("download failed"))
    /\ spc' = "done"
    /\ UNCHANGED <<paper_title, download_result, submitted, pdf_path, fetched,
                   zotero_result, normVars, extrVars, dispVars, concVars, toolVars>>

\* lines 879-907: build paper_info, save it, report
SaveToZotero ==
    /\ spc = "downloaded"
    /\ Truthy(download_result["success"])
    /\ pdf_path' = first_pdf(Get(download_result, "files", PyList(<< >>)).v)
    /\ submitted' = save_paper_info(NatureUrl.v, paper_title, download_result)
    /\ zotero_result' \in ZoteroResults
    /\ save_result' = save_outcome(download_result, zotero_result')
    /\ spc' = "done"
    /\ UNCHANGED <<paper_title, download_result, fetched, normVars, extrVars, dispVars,
                   concVars, toolVars>>

\* lines 909-914: save_to_zotero raised
SaveFault ==
    /\ spc = "downloaded"
    /\ Truthy(download_result["success"])
    /\ pdf_path' = first_pdf(Get(download_result, "files", PyList(<< >>)).v)
    /\ submitted' = save_paper_info(NatureUrl.v, paper_title, download_result)
    /\ save_result' = ("success" :> PyFalse @@ "message" :> Msg("operation failed"))
    /\ spc' = "done"
    /\ UNCHANGED <<paper_title, download_result, fetched, zotero_result, normVars,
                   extrVars, dispVars, concVars, toolVars>>

NextSave ==
    \/ DownloadPaper
    \/ DownloadFailed
    \/ SaveToZotero
    \/ SaveFault

SpecSave == InitSave /\ [][NextSave]_vars

-----------------------------------------------------------------------------
(* Properties of download_and_save_to_zotero (specification SpecSave) *)

\* the placeholder texts that stand for a missing title
TitlePlaceholders ==
    {UnknownTitle, <<"Unknown">>,
     <<"U+6807", "U+9898", "U+63D0", "U+53D6", "U+4E2D", ".", ".", ".">>}

\* first non-empty of the extracted title and the caller's title, else empty
resolved_title(extracted, fallback) ==
    IF Truthy(extracted) THEN extracted
    ELSE IF Truthy(fallback) THEN fallback
    ELSE PyStr(<< >>)

\* C11: the title written into the record submitted for import is the
\* extracted title if that is non-empty, otherwise the caller's title,
\* otherwise empty; no placeholder text is ever written into the record.
C11_TitlePrecedence ==
    (spc = "done" /\ Truthy(save_result["success"])) =>
        /\ submitted["title"] =
               resolved_title(Get(download_result, "title", PyStr(<< >>)), paper_title)
        /\ submitted["title"].v \notin TitlePlaceholders


\* download_paper reported success
Downloaded == Truthy(Get(download_result, "success", PyFalse))

\* save_to_zotero was called: it was handed a paper_info or it returned
ZoteroContacted == submitted # EmptyDict \/ zotero_result # EmptyDict

MainPdfs == { i \in 1..Len(fetched) : fetched[i].what = "pdf" /\ fetched[i].ok }

\* C24: download_paper returns success=true exactly when its files list is
\* not empty, the exception path included; the HTML version is saved only
\* when no PDF link was downloaded, and at most one main PDF is downloaded.
C24_SuccessIffFiles ==
    spc # "start" =>
        /\ Truthy(download_result["success"]) <=> Truthy(download_result["files"])
        /\ (\E i \in 1..Len(fetched) : fetched[i].what = "html") => MainPdfs = {}
        /\ Cardinality(MainPdfs) <= 1
        /\ Cardinality({ i \in 1..Len(download_result["files"].v) :
                           download_result["files"].v[i] = generate_filename(paper_title, "pdf") })
           <= 1

C24_Witness ==
    /\ spc = "downloaded"
    /\ Len(fetched) >= 2
    /\ fetched[1].what = "pdf" /\ ~fetched[1].ok
    /\ fetched[2].what = "pdf" /\ fetched[2].ok
    /\ Truthy(download_result["success"])
    /\ \A i \in 1..Len(fetched) : fetched[i].what # "html"

-----------------------------------------------------------------------------
(* Dispatch: step 1 of trace_url_processing (trace_url.py, lines 129-162) *)
(* in front of ExtractorManager.extract_metadata.  The manager is not     *)
(* part of the sources at hand; it is modelled after section 4.1 of the   *)
(* specification, with BioRxivDirectExtractor as its registered           *)
(* site-specific extractor and a generic extractor as its fallback.       *)

\* line 132: 'arxiv.org' in url
is_arxiv_url(u) == Contains(u, <<"arxiv.org">>)

\* the extractors a URL can go to, most specific first
ArxivExtractor == "arXiv"
BioRxivDirect == "BioRxiv-Direct"
GenericExtractor == "Generic"

\* the site-specific extractors the manager holds, in list order
Registered == <<BioRxivDirect>>

\* can_handle of a registered extractor
registered_can_handle(name, u) == name = BioRxivDirect /\ can_handle(u)

\* section 4.1: the first registered extractor whose can_handle is true,
\* the generic fallback when there is none
manager_select(u) ==
    IF \E i \in 1..Len(Registered) : registered_can_handle(Registered[i], u)
    THEN Registered[CHOOSE i \in 1..Len(Registered) :
                        /\ registered_can_handle(Registered[i], u)
                        /\ \A j \in 1..(i - 1) : ~registered_can_handle(Registered[j], u)]
    ELSE GenericExtractor

\* section 4.1: a fault of the extractor is recorded as error in the result
fault_result(exc) == "error" :> PyStr(<<exc>>)

\* mutant of manager_result: a fault is handed on as an empty result
manager_result_fault_dropped(r) ==
    IF r.kind = "raise" THEN EmptyDict ELSE r.value

\* what the manager returns for the outcome r of the extractor it ran
manager_result(r) ==
    IF r.kind = "raise" THEN fault_result(r.exc) ELSE r.value

\* lines 136-146: the arXiv metadata, re-keyed
arxiv_metadata(u, m) ==
    "title" :> Get(m, "title", PyStr(<<"Unknown">>))
    @@ "authors" :> Get(m, "authors_string", PyStr(<< >>))
    @@ "date" :> Get(m, "date", PyStr(<< >>))
    @@ "abstract" :> Get(m, "abstract", PyStr(<< >>))
    @@ "url" :> Get(m, "abs_url", PyStr(u))
    @@ "pdf_url" :> Get(m, "pdf_url", PyStr(<< >>))
    @@ "arxiv_id" :> Get(m, "arxiv_id", PyStr(<< >>))
    @@ "extractor" :> PyStr(<<"arXiv">>)
    @@ "DOI" :> Get(m, "doi", PyStr(<< >>))

\* what _extract_arxiv_metadata and the generic extractor can hand back
ArxivResults ==
    { "title" :> Title @@ "authors_string" :> SomeAuthors,
      "authors_string" :> SomeAuthors,
      "error" :> PyStr(<<"not found">>) }

GenericResults ==
    { "title" :> Title @@ "authors" :> SomeAuthors @@ "extractor" :> PyStr(<<"Generic">>),
      "title" :> PyStr(<< >>) @@ "extractor" :> PyStr(<<"Generic">>),
      EmptyDict }

\* the URLs asked about: those of the extractor, also with another site
\* named in the query
Queries == {<< >>, <<"?ref=", "arxiv.org">>, <<"?ref=", "biorxiv.org">>}
DispatchUrls == { u \o q : u \in ExtractUrls, q \in Queries }

InitDispatch ==
    /\ NormIdle
    /\ ConcurrentIdle
    /\ SaveIdle
    /\ ToolsIdle
    /\ url \in DispatchUrls
    /\ download = NoDownload
    /\ result = NoResult
    /\ xpc = "idle"
    /\ selected = "none"
    /\ invoked = << >>
    /\ metadata = EmptyDict
    /\ dpc = "start"

\* lines 132-147: the arXiv extractor returned m
ArxivBranch(m) ==
    /\ dpc = "start"
    /\ is_arxiv_url(url)
    /\ selected' = ArxivExtractor
    /\ invoked' = Append(invoked, ArxivExtractor)
    /\ metadata' = IF "error" \in DOMAIN m THEN m ELSE arxiv_metadata(url, m)
    /\ dpc' = "done"
    /\ UNCHANGED <<normVars, extrVars, saveVars, concVars, toolVars>>

\* lines 148-150: the arXiv extractor raised, the trace ends
ArxivFault ==
    /\ dpc = "start"
    /\ is_arxiv_url(url)
    /\ selected' = ArxivExtractor
    /\ invoked' = Append(invoked, ArxivExtractor)
    /\ dpc' = "abandoned"
    /\ UNCHANGED <<metadata, normVars, extrVars, saveVars, concVars, toolVars>>

\* lines 151-153 and section 4.1: the manager picks the extractor
ManagerSelect ==
    /\ dpc = "start"
    /\ ~is_arxiv_url(url)
    /\ selected' = manager_select(url)
    /\ dpc' = "selected"
    /\ UNCHANGED <<invoked, metadata, normVars, extrVars, saveVars, concVars, toolVars>>

\* the manager calls BioRxivDirectExtractor.extract_metadata(url)
InvokeBioRxiv ==
    /\ dpc = "selected"
    /\ selected = BioRxivDirect
    /\ invoked' = Append(invoked, BioRxivDirect)
    /\ xpc' = "request"
    /\ dpc' = "extracting"
    /\ UNCHANGED <<selected, metadata, url, download, result, normVars, saveVars, concVars, toolVars>>

\* extract_metadata returned or raised: the manager hands on its result
BioRxivReturned ==
    /\ dpc = "extracting"
    /\ xpc = "done"
    /\ metadata' = manager_result(result)
    /\ dpc' = "done"
    /\ UNCHANGED <<selected, invoked, normVars, extrVars, saveVars, concVars, toolVars>>

\* the manager calls the generic extractor, which returns m
InvokeGeneric(m) ==
    /\ dpc = "selected"
    /\ selected = GenericExtractor
    /\ invoked' = Append(invoked, GenericExtractor)
    /\ result' = Returned(m)
    /\ metadata' = manager_result(result')
    /\ dpc' = "done"
    /\ UNCHANGED <<selected, url, download, xpc, normVars, saveVars, concVars, toolVars>>

\* the generic extractor raised
GenericFault ==
    /\ dpc = "selected"
    /\ selected = GenericExtractor
    /\ invoked' = Append(invoked, GenericExtractor)
    /\ result' = Raised("TimeoutError")
    /\ metadata' = manager_result(result')
    /\ dpc' = "done"
    /\ UNCHANGED <<selected, url, download, xpc, normVars, saveVars, concVars, toolVars>>

NextDispatch ==
    \/ \E m \in ArxivResults : ArxivBranch(m)
    \/ ArxivFault
    \/ ManagerSelect
    \/ InvokeBioRxiv
    \/ ExtractFault
    \/ StartDownload
    \/ \E b \in DownloadedBytes : HandleDownload(b)
    \/ HandleDownloadFault
    \/ FinishDownload
    \/ DownloadFault
    \/ BioRxivReturned
    \/ \E m \in GenericResults : InvokeGeneric(m)
    \/ GenericFault

SpecDispatch == InitDispatch /\ [][NextDispatch]_vars

-----------------------------------------------------------------------------
(* Properties of the dispatch (specification SpecDispatch) *)

\* the extractors whose test accepts the URL
Accepting(u) ==
    (IF is_arxiv_url(u) THEN {ArxivExtractor} ELSE {})
    \cup (IF can_handle(u) THEN {BioRxivDirect} ELSE {})

Owner(u) ==
    IF is_arxiv_url(u) THEN ArxivExtractor
    ELSE IF can_handle(u) THEN BioRxivDirect
    ELSE GenericExtractor

\* the extractor the manager ran for the URL faulted
Faulted == result.kind = "raise"

-----------------------------------------------------------------------------
(* Concurrent downloads: the handle_download callbacks of                  *)
(* tools/anti_crawler_pdf_downloader.py (lines 102-132) and of             *)
(* BioRxivDirectExtractor._async_download_pdf (lines 154-175).  Every      *)
(* request has its own browser, page and closure variables; the requests   *)
(* share the temporary directory and the clock.                            *)

MaxClock == 1          \* seconds the clock can advance during the downloads

Requests == {1, 2}

AntiCrawler == "anti_crawler"
Direct == "biorxiv_direct"

PdfUrls ==
    {<<"https://www.", "biorxiv.org", "/content/", "10.1101/", "A", ".full.pdf">>,
     <<"https://www.", "biorxiv.org", "/content/", "10.1101/", "B", ".full.pdf">>,
     <<"https://www.", "medrxiv.org", "/content/", "10.1101/", "C", ".full.pdf">>}

\* what the site serves for a PDF URL: the PDF, or a challenge page
pdf_of(u) == PyBytes(<<"%PDF">> \o u)
challenge_of(u) == PyBytes(<<"<htm">> \o u)
Served(u) == {pdf_of(u), challenge_of(u)}

\* line 108: os.path.join(temp_dir, f"temp_pdf_{int(time.time())}.pdf")
timestamp_path(t) == [stem |-> "temp_pdf_", n |-> t]

\* lines 157-159: tempfile.NamedTemporaryFile(suffix='.pdf', delete=False)
\* creates a file under a name that no existing file has
named_temporary_file(files) ==
    [stem |-> "tmp",
     n |-> CHOOSE k \in 0..Cardinality(DOMAIN files) :
               /\ [stem |-> "tmp", n |-> k] \notin DOMAIN files
               /\ \A j \in 0..(k - 1) : [stem |-> "tmp", n |-> j] \in DOMAIN files]

\* the temp_path a handle_download callback of the given kind works with
temp_path_of(kind, t, files) ==
    IF kind = AntiCrawler THEN timestamp_path(t) ELSE named_temporary_file(files)

WriteFile(files, path, b) ==
    [q \in DOMAIN files \cup {path} |-> IF q = path THEN b ELSE files[q]]

Unlink(files, path) == [q \in DOMAIN files \ {path} |-> files[q]]

NewRequest(u, kind, b) ==
    [pdf_url |-> u, kind |-> kind, served |-> b, at |-> "listening",
     temp_path |-> timestamp_path(0), content |-> PyNone, completed |-> FALSE,
     returned |-> PyNone]

InitConcurrent ==
    /\ NormIdle
    /\ ExtractIdle
    /\ SaveIdle
    /\ DispatchIdle
    /\ ToolsIdle
    /\ now = 0
    /\ tmpfiles = EmptyDict
    /\ \E u1 \in PdfUrls, k1 \in {AntiCrawler, Direct}, k2 \in {AntiCrawler, Direct} :
          \E u2 \in PdfUrls \ {u1} :
              \E b1 \in Served(u1), b2 \in Served(u2) :
                  req = <<NewRequest(u1, k1, b1), NewRequest(u2, k2, b2)>>

\* a second passes
Tick ==
    /\ now < MaxClock
    /\ now' = now + 1
    /\ UNCHANGED <<tmpfiles, req, normVars, extrVars, saveVars, dispVars, toolVars>>

\* the download event arrives: lines 106-108, resp. 157-159
NameTempFile(r) ==
    /\ req[r].at = "listening"
    /\ LET path == temp_path_of(req[r].kind, now, tmpfiles) IN
       /\ req' = [req EXCEPT ![r].temp_path = path, ![r].at = "named"]
       /\ tmpfiles' = IF req[r].kind = Direct
                      THEN WriteFile(tmpfiles, path, PyBytes(<< >>))
                      ELSE tmpfiles
    /\ UNCHANGED <<now, normVars, extrVars, saveVars, dispVars, toolVars>>

\* await download.save_as(temp_path): line 110, resp. 161
SaveAs(r) ==
    /\ req[r].at = "named"
    /\ tmpfiles' = WriteFile(tmpfiles, req[r].temp_path, req[r].served)
    /\ req' = [req EXCEPT ![r].at = "saved"]
    /\ UNCHANGED <<now, normVars, extrVars, saveVars, dispVars, toolVars>>

\* lines 112-126, resp. 163-173: read the file back, unlink it, keep the
\* bytes; the anti-crawler callback keeps them only if they are a PDF
ReadBack(r) ==
    /\ req[r].at = "saved"
    /\ req[r].temp_path \in DOMAIN tmpfiles
    /\ LET b == tmpfiles[req[r].temp_path] IN
       req' = [req EXCEPT
                 ![r].content = IF req[r].kind = Direct \/ (Truthy(b) /\ starts_with_pdf(b.v))
                                THEN b ELSE @,
                 ![r].completed = Truthy(b) /\ starts_with_pdf(b.v),
                 ![r].at = "handled"]
    /\ tmpfiles' = Unlink(tmpfiles, req[r].temp_path)
    /\ UNCHANGED <<now, normVars, extrVars, saveVars, dispVars, toolVars>>

\* lines 128-130, resp. 174-175: open() raised, the file is gone
ReadBackFault(r) ==
    /\ req[r].at = "saved"
    /\ req[r].temp_path \notin DOMAIN tmpfiles
    /\ req' = [req EXCEPT ![r].at = "handled"]
    /\ UNCHANGED <<now, tmpfiles, normVars, extrVars, saveVars, dispVars, toolVars>>

\* the wait loop ends: download_info['content'] if completed else None
\* (lines 165-166 and 220-223), resp. pdf_content (line 195)
ReturnContent(r) ==
    /\ req[r].at = "handled"
    /\ req' = [req EXCEPT
                 ![r].returned = IF req[r].kind = Direct \/ req[r].completed
                                 THEN req[r].content ELSE PyNone,
                 ![r].at = "returned"]
    /\ UNCHANGED <<now, tmpfiles, normVars, extrVars, saveVars, dispVars, toolVars>>

NextConcurrent ==
    \/ Tick
    \/ \E r \in Requests : NameTempFile(r)
    \/ \E r \in Requests : SaveAs(r)
    \/ \E r \in Requests : ReadBack(r)
    \/ \E r \in Requests : ReadBackFault(r)
    \/ \E r \in Requests : ReturnContent(r)

SpecConcurrent == InitConcurrent /\ [][NextConcurrent]_vars

-----------------------------------------------------------------------------
(* Properties of concurrent downloads (specification SpecConcurrent) *)

\* what request r returns when it runs alone
alone(r) ==
    IF req[r].kind = Direct \/ starts_with_pdf(req[r].served.v)
    THEN req[r].served ELSE PyNone

\* C20: two requests for different URLs that run at the same time each
\* return what they return alone; no temporary file is written by both.
C20_RequestsIndependent ==
    /\ \A r \in Requests : req[r].at = "returned" => req[r].returned = alone(r)
    /\ \A r1 \in Requests, r2 \in Requests :
           (r1 # r2 /\ req[r1].at \in {"named", "saved"} /\ req[r2].at \in {"named", "saved"})
           => req[r1].temp_path # req[r2].temp_path

-----------------------------------------------------------------------------
(* The legacy MCP server's tool handler, legacy/mcp_server.py lines 406-680:
   the module-level `downloader` starts as None (line 41) and the tools that
   need it test `if not downloader` first. *)

MaxCalls == 3

\* LightweightNatureDownloader(cookies), downloader.py lines 33-55: a session
\* whose cookie jar holds the cookies given
new_downloader(cookies) == [made |-> TRUE, cookies |-> cookies]

\* `not downloader`: the class defines neither __bool__ nor __len__
no_downloader(d) == ~d.made

CookieTools ==
    { "search_papers", "enhanced_search_papers", "download_paper",
      "download_papers_batch", "export_cookies", "search_and_download" }

\* the tools whose handler returns early when a required argument is missing
\* (lines 488, 517, 565, 587, 648); export_cookies takes none
NeedsArgument == CookieTools \ { "export_cookies" }

SetCookiesFirst == "set cookies first"

Call(name, reply, operated, loaded) ==
    [name |-> name, reply |-> reply, operated |-> operated, loaded |-> loaded]

\* the `cookies` argument of set_cookies: absent or empty, a cookie string or
\* JSON object, JSON that is not an object (set_cookies raises ValueError)
CookieArguments == { "missing", "cookies", "unsupported" }

InitCookies ==
    /\ CookiesIdle
    /\ BatchIdle
    /\ SearchIdle
    /\ ZipIdle
    /\ MaintenanceIdle
    /\ TreeIdle
    /\ NormIdle
    /\ ExtractIdle
    /\ SaveIdle
    /\ DispatchIdle
    /\ ConcurrentIdle

\* lines 411-433
SetCookies(cookies) ==
    /\ Len(history) < MaxCalls
    /\ \/ /\ cookies = "missing"
          /\ history' = Append(history, Call("set_cookies", "missing cookies", FALSE, FALSE))
          /\ UNCHANGED downloader
       \/ /\ cookies = "cookies"
          /\ downloader' = new_downloader({"given"})
          /\ \E logged_in \in BOOLEAN :
                history' = Append(history,
                    Call("set_cookies", IF logged_in THEN "cookies set" ELSE "cookies set, login uncertain",
                         FALSE, TRUE))
       \/ /\ cookies = "unsupported"
          /\ history' = Append(history, Call("set_cookies", "set cookies failed", FALSE, FALSE))
          /\ UNCHANGED downloader
    /\ UNCHANGED besideCookies

\* lines 435-457; downloader.load_cookies_from_browser returns a bool and
\* catches its own exceptions (downloader.py lines 89-105)
LoadCookiesFromBrowser(success) ==
    /\ Len(history) < MaxCalls
    /\ LET d == IF no_downloader(downloader) THEN new_downloader({}) ELSE downloader
       IN  downloader' = IF success THEN [d EXCEPT !.cookies = @ \cup {"browser"}] ELSE d
    /\ history' = Append(history,
           Call("load_cookies_from_browser",
                IF success THEN "cookies loaded" ELSE "loading cookies failed", FALSE, success))
    /\ UNCHANGED besideCookies

\* lines 481-483, 510-512, 558-560, 581-583, 630-632, 641-643 and what
\* follows each: the guard, the argument test, the downloader operation
CookieDependentTool(name, given) ==
    /\ Len(history) < MaxCalls
    /\ history' = Append(history,
           IF no_downloader(downloader) THEN Call(name, SetCookiesFirst, FALSE, FALSE)
           ELSE IF name \in NeedsArgument /\ ~given THEN Call(name, "missing argument", FALSE, FALSE)
           ELSE Call(name, "report", TRUE, FALSE))
    /\ UNCHANGED <<downloader, besideCookies>>

NextCookies ==
    \/ \E cookies \in CookieArguments : SetCookies(cookies)
    \/ \E success \in BOOLEAN : LoadCookiesFromBrowser(success)
    \/ \E name \in CookieTools, given \in BOOLEAN : CookieDependentTool(name, given)

SpecCookies == InitCookies /\ [][NextCookies]_vars

\* an earlier set_cookies or load_cookies_from_browser call loaded cookies
CookiesLoadedBefore(i) == \E j \in 1..(i - 1) : history[j].loaded

\* C21: over any sequence of tool calls, a cookie-dependent tool performs a
\* downloader operation only if an earlier set_cookies or
\* load_cookies_from_browser call succeeded in loading cookies; otherwise it
\* answers "set cookies first" and performs nothing.
C21_CookiesBeforeOperation ==
    \A i \in 1..Len(history) :
        (history[i].name \in CookieTools /\ ~CookiesLoadedBefore(i)) =>
            /\ ~history[i].operated
            /\ history[i].reply = SetCookiesFirst

-----------------------------------------------------------------------------
(* download_papers_batch, legacy/mcp_server.py lines 581-622, with a
   downloader in place *)

MaxPapers == 3

\* f"论文{n}"
DefaultTitle(n) == PyStr(<<"paper", ToString(n)>>)

\* the entries a caller can put at position i: url and title, title only,
\* url only, an empty url
BatchUrl(i) == PyStr(<<"https://www.nature.com/articles/", ToString(i)>>)
BatchTitle(i) == PyStr(<<"Title", ToString(i)>>)
BatchEntries(i) ==
    { "url" :> BatchUrl(i) @@ "title" :> BatchTitle(i),
      "title" :> BatchTitle(i),
      "url" :> BatchUrl(i),
      "url" :> PyStr(<< >>) @@ "title" :> BatchTitle(i) }

BatchInputs ==
    UNION { { l \in [1..n -> UNION { BatchEntries(i) : i \in 1..n }] :
                \A i \in 1..n : l[i] \in BatchEntries(i) } : n \in 0..MaxPapers }

\* lines 595-606: `results` after the loop; ok[i] is whether the download of
\* entry i succeeds. Each result is kept with the url that produced it.
RECURSIVE batch_results(_, _, _)
batch_results(list, ok, i) ==
    IF i > Len(list) THEN << >>
    ELSE LET link == Get(list[i], "url", PyStr(<< >>))
             title == Get(list[i], "title", DefaultTitle(i))
         IN (IF ~Truthy(link) THEN << >>
             ELSE <<[url |-> link,
                     result |-> IF ok[i]
                                THEN download_paper(title, <<"ok">>, FALSE, << >>)
                                ELSE download_paper(title, <<"fail">>, FALSE, << >>)]>>)
            \o batch_results(list, ok, i + 1)

Succeeded(r) == Truthy(r.result["success"])

\* lines 612-617: line i of the report, built from results[i-1] and
\* papers[i-1]
report_line(list, results, i) ==
    [n |-> i,
     paper_title |-> Get(list[i], "title", DefaultTitle(i)),
     url |-> results[i].url,
     ok |-> Succeeded(results[i]),
     detail |-> IF Succeeded(results[i])
                THEN [t |-> "int", v |-> Len(results[i].result["files"].v)]
                ELSE results[i].result["message"]]

\* lines 584-622
batch_report_of(list, ok) ==
    IF list = << >> THEN [NoReport EXCEPT !.text = "missing papers"]
    ELSE LET results == batch_results(list, ok, 1)
             done == SelectSeq(results, Succeeded)
         IN [lines |-> [i \in 1..Len(results) |-> report_line(list, results, i)],
             success_count |-> Len(done),
             total_files |-> Len(done),
             text |-> "report"]

InitBatch ==
    /\ papers \in BatchInputs
    /\ batch_report = NoReport
    /\ bpc = "start"
    /\ CookiesIdle
    /\ SearchIdle
    /\ ZipIdle
    /\ MaintenanceIdle
    /\ TreeIdle
    /\ NormIdle
    /\ ExtractIdle
    /\ SaveIdle
    /\ DispatchIdle
    /\ ConcurrentIdle

DownloadPapersBatch ==
    /\ bpc = "start"
    /\ \E ok \in [1..Len(papers) -> BOOLEAN] :
          batch_report' = batch_report_of(papers, ok)
    /\ bpc' = "done"
    /\ UNCHANGED <<papers, besideBatch>>

NextBatch == DownloadPapersBatch

SpecBatch == InitBatch /\ [][NextBatch]_vars

\* the entries of `papers` whose url produced a download
HasUrl(i) == Truthy(Get(papers[i], "url", PyStr(<< >>)))

\* C22: every per-paper line of the report pairs a download result with the
\* title of the paper whose URL produced that result, also when entries
\* without a url were skipped.
C22_ReportPairsResultWithItsTitle ==
    bpc = "done" =>
        \A n \in 1..Len(batch_report.lines) :
            \E i \in 1..Len(papers) :
                /\ HasUrl(i)
                /\ papers[i]["url"] = batch_report.lines[n].url
                /\ batch_report.lines[n].paper_title = Get(papers[i], "title", DefaultTitle(i))

-----------------------------------------------------------------------------
(* enhanced_search_papers, legacy/downloader.py lines 585-699, and
   _rank_papers_by_relevance, lines 772-787.  A paper is the dict that
   _extract_enhanced_paper_info returned: url, relevance_score (in halves of
   a point, the weights being multiples of 0.5), date and title (strings,
   kept as their rank in string order). *)

MaxPageLen == 2

Paper(u, score, date, title) ==
    [url |-> u, relevance_score |-> score, date |-> date, title |-> title]

\* two results share a url, two share a score, two share score and date
PaperPool ==
    { Paper("https://www.nature.com/articles/a", 10, 2, 1),
      Paper("https://www.nature.com/articles/b", 6, 1, 2),
      Paper("https://www.nature.com/articles/a", 6, 2, 3),
      Paper("https://www.nature.com/articles/c", 10, 2, 4),
      Paper("https://www.nature.com/articles/d", 16, 1, 5) }

PageFailed == [failed |-> TRUE, results |-> << >>]
PageOf(l) == [failed |-> FALSE, results |-> l]

FirstPages ==
    {PageFailed} \cup
    { PageOf(l) : l \in UNION { { q \in [1..n -> PaperPool] :
                                     \A i, j \in 1..n : i # j => q[i] # q[j] } :
                                 n \in 0..MaxPageLen } }

LaterPages == {PageFailed} \cup { PageOf(<<x>>) : x \in PaperPool }

\* the schema allows 1..20; 0 and 21 are sent by callers that ignore it
MaxResultsArguments == { 0, 1, 2, 11, 21 }

Minimum(a, b) == IF a < b THEN a ELSE b

\* line 613
pages_to_search(n) == Minimum(3, (n + 9) \div 10)

\* lines 615-662: all_papers after the pages loop, and the number of pages
\* requested; `page` is the page about to be requested
RECURSIVE collect(_, _, _, _)
collect(served, n, page, all_papers) ==
    IF page > pages_to_search(n) THEN [all_papers |-> all_papers, fetched |-> page - 1]
    ELSE LET got == IF served[page].failed THEN all_papers
                    ELSE all_papers \o served[page].results
         IN IF ~served[page].failed /\ 2 * Len(got) >= 3 * n
            THEN [all_papers |-> got, fetched |-> page]
            ELSE collect(served, n, page + 1, got)

\* lines 664-671
RECURSIVE unique_papers(_, _)
unique_papers(all_papers, seen_urls) ==
    IF all_papers = << >> THEN << >>
    ELSE IF Head(all_papers).url # "" /\ Head(all_papers).url \notin seen_urls
         THEN <<Head(all_papers)>>
              \o unique_papers(Tail(all_papers), seen_urls \cup {Head(all_papers).url})
         ELSE unique_papers(Tail(all_papers), seen_urls)

\* the sort key of lines 778-782 compared as tuples: a's key > b's key
key_greater(a, b) ==
    \/ a.relevance_score > b.relevance_score
    \/ /\ a.relevance_score = b.relevance_score
       /\ \/ a.date > b.date
          \/ a.date = b.date /\ a.title > b.title

\* put x into a list sorted downwards, after the entries whose key is not smaller
RECURSIVE insert_ranked(_, _)
insert_ranked(x, l) ==
    IF l = << >> THEN <<x>>
    ELSE IF key_greater(x, Head(l)) THEN <<x>> \o l
    ELSE <<Head(l)>> \o insert_ranked(x, Tail(l))

\* mutant: the candidates in the order they were found
rank_papers_as_found(l) == l

\* sorted(papers, key=..., reverse=True), lines 776-784
RECURSIVE rank_papers_by_relevance(_)
rank_papers_by_relevance(l) ==
    IF l = << >> THEN << >>
    ELSE insert_ranked(l[Len(l)], rank_papers_by_relevance(SubSeq(l, 1, Len(l) - 1)))

\* lines 596-699; with no page to search, `page` is unbound at line 681 and
\* the except branch of lines 687-699 answers
enhanced_search_papers(served, n) ==
    IF pages_to_search(n) < 1
    THEN [papers |-> << >>, total_found |-> 0, error |-> TRUE]
    ELSE LET unique == unique_papers(collect(served, n, 1, << >>).all_papers, {})
         IN [papers |-> Take(rank_papers_by_relevance(unique), n),
             total_found |-> Len(unique),
             error |-> FALSE]

InitSearch ==
    /\ \E p1 \in FirstPages, p2 \in LaterPages, p3 \in LaterPages :
          site_pages = <<p1, p2, p3>>
    /\ max_results \in MaxResultsArguments
    /\ search_results = NoSearch
    /\ pages_fetched = 0
    /\ qpc = "start"
    /\ CookiesIdle
    /\ BatchIdle
    /\ ZipIdle
    /\ MaintenanceIdle
    /\ TreeIdle
    /\ NormIdle
    /\ ExtractIdle
    /\ SaveIdle
    /\ DispatchIdle
    /\ ConcurrentIdle

EnhancedSearchPapers ==
    /\ qpc = "start"
    /\ search_results' = enhanced_search_papers(site_pages, max_results)
    /\ pages_fetched' = IF pages_to_search(max_results) < 1 THEN 0
                        ELSE collect(site_pages, max_results, 1, << >>).fetched
    /\ qpc' = "done"
    /\ UNCHANGED <<site_pages, max_results, besideSearch>>

NextSearch == EnhancedSearchPapers

SpecSearch == InitSearch /\ [][NextSearch]_vars

\* the deduplicated candidates: per url, the first paper found on the pages
\* that were fetched
Candidates ==
    LET found == collect(site_pages, max_results, 1, << >>).all_papers
    IN { found[i] : i \in { k \in 1..Len(found) :
                              \A j \in 1..(k - 1) : found[j].url # found[k].url } }

ReturnedPapers == { search_results.papers[i] : i \in 1..Len(search_results.papers) }

\* C25: the returned list has no two papers with the same URL, at most
\* max_results entries, non-increasing relevance_score, every returned paper
\* scores at least as high as every unique candidate left out, and at most
\* 3 result pages are fetched.
C25_TopOfUniqueCandidates ==
    qpc = "done" =>
        LET out == search_results.papers
        IN /\ \A i, j \in 1..Len(out) : i # j => out[i].url # out[j].url
           /\ Len(out) <= max_results
           /\ \A i \in 1..(Len(out) - 1) : out[i].relevance_score >= out[i + 1].relevance_score
           /\ ~search_results.error =>
                 /\ ReturnedPapers \subseteq Candidates
                 /\ \A x \in ReturnedPapers, c \in Candidates \ ReturnedPapers :
                       x.relevance_score >= c.relevance_score
                 /\ Len(out) = Minimum(max_results, Cardinality(Candidates))
           /\ pages_fetched <= 3

\* more unique candidates than max_results, found out of score order, two of
\* them sharing a url
C25_Witness ==
    /\ qpc = "done"
    /\ ~search_results.error
    /\ Cardinality(Candidates) > max_results
    /\ Len(search_results.papers) = max_results
    /\ \E i, j \in 1..Len(site_pages[1].results) :
          /\ i < j
          /\ site_pages[1].results[i].relevance_score < site_pages[1].results[j].relevance_score

-----------------------------------------------------------------------------
(* extract_pdf_from_zip, tools/zip_extractor.py lines 21-160, with
   _is_word_document, _find_pdf_files and _get_pdf_priority, lines 188-250.
   A member name is a sequence of tokens, "/" being one of them. *)

MaxFiles == 3

\* str.lower() on the tokens used here
LowerToken(tok) ==
    IF tok = ".PDF" THEN ".pdf"
    ELSE IF tok = "Main" THEN "main"
    ELSE tok

Lower(name) == [i \in 1..Len(name) |-> LowerToken(name[i])]

\* name.endswith(suffix)
EndsWith(name, suffix) ==
    /\ Len(name) >= Len(suffix)
    /\ SubSeq(name, Len(name) - Len(suffix) + 1, Len(name)) = suffix

\* name.startswith(prefix)
StartsWith(name, prefix) ==
    /\ Len(name) >= Len(prefix)
    /\ SubSeq(name, 1, Len(prefix)) = prefix

\* lines 188-205
word_indicators ==
    { <<"[Content_Types].xml">>, <<"word", "/", "document", ".xml">>, <<"_rels", "/", ".rels">> }

is_word_document(list) ==
    /\ \A indicator \in word_indicators : \E i \in 1..Len(list) : list[i] = indicator
    /\ Cardinality({ i \in 1..Len(list) :
                       StartsWith(list[i], <<"word", "/">>) /\ EndsWith(list[i], <<".xml">>) }) >= 3

\* lines 207-213: supported_pdf_extensions is ['.pdf', '.PDF'], compared
\* in lower case
is_pdf_name(name) == EndsWith(Lower(name), <<".pdf">>)

find_pdf_files(list) == SelectSeq(list, is_pdf_name)

main_keywords == { "main", "paper", "article", "manuscript", "full" }
supplement_keywords == { "supplement", "appendix", "si", "supporting", "additional" }

\* keyword in filename_lower, for some keyword of the list
has_keyword(name, keywords) == \E k \in keywords : Contains(Lower(name), <<k>>)

in_root(name) == ~Contains(name, <<"/">>)

\* lines 215-245
get_pdf_priority(name) ==
    (IF in_root(name) THEN 100 ELSE 0)
    + (IF has_keyword(name, main_keywords) THEN 50 ELSE 0)
    - (IF has_keyword(name, supplement_keywords) THEN 50 ELSE 0)

\* list.sort(key=_get_pdf_priority, reverse=True), line 147: a stable sort
RECURSIVE insert_by_priority(_, _)
insert_by_priority(x, l) ==
    IF l = << >> THEN <<x>>
    ELSE IF get_pdf_priority(x) > get_pdf_priority(Head(l)) THEN <<x>> \o l
    ELSE <<Head(l)>> \o insert_by_priority(x, Tail(l))

RECURSIVE sort_by_priority(_)
sort_by_priority(l) ==
    IF l = << >> THEN << >>
    ELSE insert_by_priority(l[Len(l)], sort_by_priority(SubSeq(l, 1, Len(l) - 1)))

\* lines 58-160; is_pdf is what _is_pdf_data says of the member's bytes
extract_pdf_from_zip(list, is_pdf) ==
    IF is_word_document(list) THEN [format |-> "DOCX", original_path |-> <<"document", ".docx">>]
    ELSE IF find_pdf_files(list) = << >> THEN NoExtraction
    ELSE LET target_pdf == sort_by_priority(find_pdf_files(list))[1]
         IN IF is_pdf THEN [format |-> "PDF", original_path |-> target_pdf]
            ELSE NoExtraction

ZipFolder == <<"docs", "/">>

ZipMembers ==
    { folder \o <<stem, ".pdf">> : folder \in { << >>, ZipFolder },
                                   stem \in { "main", "supplement", "figure" } }
    \cup { <<"Main", ".PDF">>, <<"readme", ".txt">> }

WordArchive ==
    <<<<"[Content_Types].xml">>, <<"_rels", "/", ".rels">>, <<"word", "/", "document", ".xml">>,
      <<"word", "/", "styles", ".xml">>, <<"word", "/", "settings", ".xml">> >>

ZipInputs ==
    UNION { { l \in [1..n -> ZipMembers] : \A i, j \in 1..n : i # j => l[i] # l[j] } :
            n \in 0..MaxFiles }
    \cup { WordArchive, WordArchive \o << <<"main", ".pdf">> >> }

InitZip ==
    /\ file_list \in ZipInputs
    /\ zip_result = NoExtraction
    /\ zpc = "start"
    /\ CookiesIdle
    /\ BatchIdle
    /\ SearchIdle
    /\ MaintenanceIdle
    /\ TreeIdle
    /\ NormIdle
    /\ ExtractIdle
    /\ SaveIdle
    /\ DispatchIdle
    /\ ConcurrentIdle

ExtractPdfFromZip ==
    /\ zpc = "start"
    /\ \E is_pdf \in BOOLEAN : zip_result' = extract_pdf_from_zip(file_list, is_pdf)
    /\ zpc' = "done"
    /\ UNCHANGED <<file_list, besideZip>>

NextZip == ExtractPdfFromZip

SpecZip == InitZip /\ [][NextZip]_vars

RootPdfs == { i \in 1..Len(file_list) : is_pdf_name(file_list[i]) /\ in_root(file_list[i]) }
FolderPdfs == { i \in 1..Len(file_list) : is_pdf_name(file_list[i]) /\ ~in_root(file_list[i]) }

\* C26: when a ZIP that is not a Word document holds a PDF at the archive
\* root and a PDF in a subfolder, the root-level one is selected, a
\* root-level file having strictly higher priority than any file in a
\* subfolder whatever keywords the names contain.
C26_RootPdfSelected ==
    (/\ zpc = "done"
     /\ zip_result.format = "PDF"
     /\ ~is_word_document(file_list)
     /\ RootPdfs # {}
     /\ FolderPdfs # {}) =>
        /\ in_root(zip_result.original_path)
        /\ \A r \in RootPdfs, f \in FolderPdfs :
              get_pdf_priority(file_list[r]) > get_pdf_priority(file_list[f])

-----------------------------------------------------------------------------
(* The maintenance scripts: migrate_config_files and cleanup_old_files of
   migrate_configs.py, option_a_disable_nature and option_b_remove_nature of
   cleanup_nature.py.  The file system is a function from the paths the
   scripts name ("p/" the project root, "u/" the directory ~/.zotlink) to
   what is there. *)

File(kind, note) == [kind |-> kind, note |-> note]
NoFile == File("absent", "none")
Directory == File("dir", "none")
Text == File("text", "original")
\* cookies.json: with a databases.nature entry, without one, not JSON
NatureConfig == File("config with nature", "original")
PlainConfig == File("config without nature", "original")
BrokenConfig == File("not json", "original")
SourceCode == File("code", "original")

UserDir == "u/"

ScriptPaths ==
    { "p/cookies.json", "p/cookies.bak", "p/nature_cookies.txt",
      "p/config/working_cookies.json", "p/saved_cookies.json", "p/.cookies.json",
      "p/zotlink/extractors/nature_extractor.py",
      "p/zotlink/extractors/extractor_manager.py", "p/zotlink/extractors/__init__.py",
      UserDir, "u/cookies.json", "u/cookies.bak", "u/nature_cookies.txt",
      "u/working_cookies.json", "u/saved_cookies.json", "u/.cookies.json",
      "u/nature_extractor.py", "u/restore_configs.sh" }

\* path.exists()
Exists(f, path) == f[path] # NoFile

WriteTo(f, path, content) == [f EXCEPT ![path] = content]
Deleted(f, path) == [f EXCEPT ![path] = NoFile]

IsConfig(c) == c.kind \in { "config with nature", "config without nature" }

\* migrate_configs.py lines 26-31
make_config_dir(f, dry_run) ==
    IF ~dry_run THEN WriteTo(f, UserDir, Directory) ELSE f

\* lines 49-83, one round of the loop over files_to_migrate: the file system
\* and whether the name went to migrated_files
migrate_one(f, name, dry_run) ==
    LET source_path == "p/" \o name
        target_path == "u/" \o name
    IN IF ~Exists(f, source_path) \/ Exists(f, target_path) THEN [f |-> f, migrated |-> FALSE]
       ELSE IF dry_run THEN [f |-> f, migrated |-> TRUE]
       ELSE IF name = "cookies.json"
            THEN IF IsConfig(f[source_path])
                 THEN [f |-> WriteTo(f, target_path, File(f[source_path].kind, "migrated")),
                       migrated |-> TRUE]
                 ELSE [f |-> f, migrated |-> FALSE]
            ELSE [f |-> WriteTo(f, target_path, f[source_path]), migrated |-> TRUE]

\* lines 85-104, one round of the loop over optional_files
migrate_optional(f, source_path, target_path, dry_run) ==
    IF ~Exists(f, source_path) \/ Exists(f, target_path) THEN [f |-> f, migrated |-> FALSE]
    ELSE IF dry_run THEN [f |-> f, migrated |-> TRUE]
    ELSE [f |-> WriteTo(f, target_path, f[source_path]), migrated |-> TRUE]

\* lines 14-145
migrate_config_files(f, dry_run) ==
    LET s0 == make_config_dir(f, dry_run)
        s1 == migrate_one(s0, "cookies.json", dry_run)
        s2 == migrate_one(s1.f, "nature_cookies.txt", dry_run)
        s3 == migrate_optional(s2.f, "p/config/working_cookies.json", "u/working_cookies.json", dry_run)
        s4 == migrate_optional(s3.f, "p/saved_cookies.json", "u/saved_cookies.json", dry_run)
        s5 == migrate_optional(s4.f, "p/.cookies.json", "u/.cookies.json", dry_run)
        migrated_files == s1.migrated \/ s2.migrated \/ s3.migrated \/ s4.migrated \/ s5.migrated
    IN IF migrated_files /\ ~dry_run
       THEN WriteTo(s5.f, "u/restore_configs.sh", File("script", "written"))
       ELSE s5.f

\* lines 163-176, one round of the loop over files_to_clean
clean_one(f, source_path, target_path, always, dry_run) ==
    IF Exists(f, source_path) /\ (Exists(f, target_path) \/ always) /\ ~dry_run
    THEN Deleted(f, source_path)
    ELSE f

\* lines 147-176
cleanup_old_files(f, dry_run) ==
    clean_one(clean_one(f, "p/nature_cookies.txt", "u/nature_cookies.txt", TRUE, dry_run),
              "p/config/working_cookies.json", "u/working_cookies.json", FALSE, dry_run)

\* cookies_file.with_suffix('.bak')
BackupOf(path) == IF path = "u/cookies.json" THEN "u/cookies.bak" ELSE "p/cookies.bak"

\* cleanup_nature.py lines 24-67
disable_in_config(f, dry_run) ==
    LET found == { path \in { "u/cookies.json", "p/cookies.json" } : Exists(f, path) }
        cookies_file == IF "u/cookies.json" \in found THEN "u/cookies.json" ELSE "p/cookies.json"
    IN IF found = {} \/ f[cookies_file].kind # "config with nature" \/ dry_run THEN f
       ELSE WriteTo(WriteTo(f, BackupOf(cookies_file), f[cookies_file]),
                    cookies_file, File("config with nature", "inactive"))

\* mutant: the text file is cleared in a dry run too
clear_nature_cookies_always(f, path, dry_run) ==
    IF Exists(f, path) THEN WriteTo(f, path, File("text", "disabled")) ELSE f

\* lines 75-81, one round of the loop over nature_cookies_paths
clear_nature_cookies(f, path, dry_run) ==
    IF Exists(f, path) /\ ~dry_run THEN WriteTo(f, path, File("text", "disabled")) ELSE f

\* lines 14-88
option_a_disable_nature(f, dry_run) ==
    clear_nature_cookies(
        clear_nature_cookies(disable_in_config(f, dry_run), "u/nature_cookies.txt", dry_run),
        "p/nature_cookies.txt", dry_run)

\* lines 111-127, one path of the loop over files_to_remove
remove_one(f, path, dry_run) ==
    IF Exists(f, path) /\ ~dry_run THEN Deleted(f, path) ELSE f

\* lines 129-176: extractor_manager.py and __init__.py rewritten
strip_nature(f, path, dry_run) ==
    IF Exists(f, path) /\ ~dry_run THEN WriteTo(f, path, File("code", "nature removed")) ELSE f

\* lines 184-206, one round of the loop over cookies_paths
remove_from_config(f, cookies_file, dry_run) ==
    IF Exists(f, cookies_file) /\ ~dry_run /\ f[cookies_file].kind = "config with nature"
    THEN WriteTo(WriteTo(f, BackupOf(cookies_file), f[cookies_file]),
                 cookies_file, File("config without nature", "nature removed"))
    ELSE f

\* lines 90-214
option_b_remove_nature(f, dry_run) ==
    LET r1 == remove_one(remove_one(f, "p/zotlink/extractors/nature_extractor.py", dry_run),
                         "u/nature_extractor.py", dry_run)
        r2 == remove_one(remove_one(r1, "p/nature_cookies.txt", dry_run),
                         "u/nature_cookies.txt", dry_run)
        r3 == remove_one(remove_one(r2, "p/config/working_cookies.json", dry_run),
                         "u/working_cookies.json", dry_run)
        m1 == strip_nature(r3, "p/zotlink/extractors/extractor_manager.py", dry_run)
        m2 == strip_nature(m1, "p/zotlink/extractors/__init__.py", dry_run)
    IN remove_from_config(remove_from_config(m2, "u/cookies.json", dry_run),
                          "p/cookies.json", dry_run)

\* the file systems a run starts from: the project tree with or without its
\* configuration files, ~/.zotlink absent or holding some of them
EmptyFs == [path \in ScriptPaths |-> NoFile]

ProjectTrees ==
    { [EmptyFs EXCEPT !["p/cookies.json"] = c,
                      !["p/nature_cookies.txt"] = n,
                      !["p/config/working_cookies.json"] = w,
                      !["p/saved_cookies.json"] = sc,
                      !["p/zotlink/extractors/nature_extractor.py"] = x,
                      !["p/zotlink/extractors/extractor_manager.py"] = SourceCode,
                      !["p/zotlink/extractors/__init__.py"] = SourceCode] :
        c \in { NoFile, NatureConfig, PlainConfig, BrokenConfig },
        n \in { NoFile, Text }, w \in { NoFile, Text }, sc \in { NoFile, Text },
        x \in { NoFile, SourceCode } }

FileSystems ==
    ProjectTrees
    \cup { [t EXCEPT ![UserDir] = Directory,
                     !["u/cookies.json"] = c,
                     !["u/nature_cookies.txt"] = n,
                     !["u/working_cookies.json"] = w] :
             t \in ProjectTrees,
             c \in { NoFile, NatureConfig, PlainConfig },
             n \in { NoFile, Text }, w \in { NoFile, Text } }

InitMaintenance ==
    /\ fs \in FileSystems
    /\ fs_before = fs
    /\ ran = NotRun
    /\ CookiesIdle
    /\ BatchIdle
    /\ SearchIdle
    /\ ZipIdle
    /\ TreeIdle
    /\ NormIdle
    /\ ExtractIdle
    /\ SaveIdle
    /\ DispatchIdle
    /\ ConcurrentIdle

Run(tool, dry_run, after) ==
    /\ ran = NotRun
    /\ fs' = after
    /\ ran' = [tool |-> tool, dry_run |-> dry_run]
    /\ UNCHANGED <<fs_before, besideMaintenance>>

MigrateConfigFiles(dry_run) ==
    Run("migrate_config_files", dry_run, migrate_config_files(fs, dry_run))

CleanupOldFiles(dry_run) ==
    Run("cleanup_old_files", dry_run, cleanup_old_files(fs, dry_run))

OptionADisableNature(dry_run) ==
    Run("option_a_disable_nature", dry_run, option_a_disable_nature(fs, dry_run))

OptionBRemoveNature(dry_run) ==
    Run("option_b_remove_nature", dry_run, option_b_remove_nature(fs, dry_run))

NextMaintenance ==
    \/ \E dry_run \in BOOLEAN : MigrateConfigFiles(dry_run)
    \/ \E dry_run \in BOOLEAN : CleanupOldFiles(dry_run)
    \/ \E dry_run \in BOOLEAN : OptionADisableNature(dry_run)
    \/ \E dry_run \in BOOLEAN : OptionBRemoveNature(dry_run)

SpecMaintenance == InitMaintenance /\ [][NextMaintenance]_vars

\* C27: with dry-run enabled, migrate_config_files, cleanup_old_files,
\* option_a_disable_nature and option_b_remove_nature create, modify and
\* delete no file or directory: the file system after the call equals the
\* file system before it.
C27_DryRunChangesNothing ==
    (ran # NotRun /\ ran.dry_run) => fs = fs_before

\* a dry run of option A on a tree where a real run would clear the text
\* file and rewrite cookies.json
C27_Witness ==
    /\ ran = [tool |-> "option_a_disable_nature", dry_run |-> TRUE]
    /\ fs["p/nature_cookies.txt"] = Text
    /\ fs["p/cookies.json"] = NatureConfig
    /\ option_a_disable_nature(fs_before, FALSE) # fs_before
    /\ fs = fs_before

-----------------------------------------------------------------------------
(* build_tree_display of the get_zotero_collections tool,
   legacy/mcp_server.py lines 715-778.  A collection is a dict with id,
   name and parentCollection (False for a top-level collection); tree_text
   is kept as the sequence of collections written, each with its level and
   the part of the display it is in. *)

MaxCollections == 3

NoParent == 0
MissingParent == 99

Collection(id, name, parent) == [id |-> id, name |-> name, parentCollection |-> parent]

\* c.get('parentCollection') is truthy
has_parent(c) == c.parentCollection # NoParent

\* lines 718-719
root_collections(list) == SelectSeq(list, LAMBDA c : ~has_parent(c))
child_collections(list) == SelectSeq(list, has_parent)

\* lines 722-727: children_map[parent_id], in the order of the list
children_of(list, parent_id) ==
    SelectSeq(child_collections(list), LAMBDA c : c.parentCollection = parent_id)

Listed(c, level, part) == [id |-> c.id, level |-> level, part |-> part]

\* lines 731-757: what add_collection(collection, level) appends to tree_text
RECURSIVE add_collection(_, _, _, _)
RECURSIVE add_children(_, _, _, _)
add_collection(list, c, level, part) ==
    <<Listed(c, level, part)>> \o add_children(list, children_of(list, c.id), level + 1, part)

add_children(list, children, level, part) ==
    IF children = << >> THEN << >>
    ELSE add_collection(list, Head(children), level, part)
         \o add_children(list, Tail(children), level, part)

\* sorted(root_collections, key=name), line 760
RECURSIVE insert_by_name(_, _)
insert_by_name(x, l) ==
    IF l = << >> THEN <<x>>
    ELSE IF x.name < Head(l).name THEN <<x>> \o l
    ELSE <<Head(l)>> \o insert_by_name(x, Tail(l))

RECURSIVE sorted_by_name(_)
sorted_by_name(l) ==
    IF l = << >> THEN << >>
    ELSE insert_by_name(l[Len(l)], sorted_by_name(SubSeq(l, 1, Len(l) - 1)))

\* lines 764-765
orphans(list) ==
    SelectSeq(child_collections(list),
              LAMBDA c : ~\E i \in 1..Len(root_collections(list)) :
                             root_collections(list)[i].id = c.parentCollection)

RECURSIVE add_each(_, _, _)
add_each(list, tops, part) ==
    IF tops = << >> THEN << >>
    ELSE add_collection(list, Head(tops), 0, part) \o add_each(list, Tail(tops), part)

\* lines 716-772
build_tree_display(list) ==
    add_each(list, sorted_by_name(root_collections(list)), "tree")
    \o add_each(list, orphans(list), "orphans")

\* collections 1..n, named against their order in the list; every parent
\* chain ends at a top-level collection or at a collection that is missing
RECURSIVE Rooted(_, _, _)
Rooted(parent, i, fuel) ==
    \/ parent[i] \in { NoParent, MissingParent }
    \/ fuel > 0 /\ Rooted(parent, parent[i], fuel - 1)

CollectionLists ==
    UNION { { [i \in 1..n |-> Collection(i, n + 1 - i, parent[i])] :
                parent \in { q \in [1..n -> (1..n) \cup { NoParent, MissingParent }] :
                               \A i \in 1..n : Rooted(q, i, n) } } :
            n \in 1..MaxCollections }

InitTree ==
    /\ collections \in CollectionLists
    /\ tree_text = << >>
    /\ tpc = "start"
    /\ CookiesIdle
    /\ BatchIdle
    /\ SearchIdle
    /\ ZipIdle
    /\ MaintenanceIdle
    /\ NormIdle
    /\ ExtractIdle
    /\ SaveIdle
    /\ DispatchIdle
    /\ ConcurrentIdle

BuildTreeDisplay ==
    /\ tpc = "start"
    /\ tree_text' = build_tree_display(collections)
    /\ tpc' = "done"
    /\ UNCHANGED <<collections, besideTree>>

NextTree == BuildTreeDisplay

SpecTree == InitTree /\ [][NextTree]_vars

TimesListed(id) == Cardinality({ k \in 1..Len(tree_text) : tree_text[k].id = id })

\* C29: every collection of the input list appears exactly once in the tree
\* display, whatever the parent relation: one nested two or more levels deep
\* only under its parent, one whose parent is missing once as an orphan.
C29_EachCollectionListedOnce ==
    tpc = "done" =>
        \A i \in 1..Len(collections) : TimesListed(collections[i].id) = 1

=============================================================================
